---------------------------- MODULE Spec2Model ----------------------------
(***************************************************************************)
(* Model of the PrinterChess path planner (src/printer_sim.py): the        *)
(* corridor graph, the A* planner, the knight router, the capture          *)
(* sequencer and the graveyard allocator.                                  *)
(*                                                                         *)
(* Units.  Every coordinate is kept in tenths of a pixel, so that the      *)
(* fractional pixel values of the source (SQUARE * 0.9, SQUARE * 0.45,     *)
(* SQUARE * 0.6) are exact integers.  Px(n) is n pixels.                   *)
(***************************************************************************)
EXTENDS Integers, Sequences, FiniteSets, TLC

\* ------------------------------------------------------------------ bounds
\* Squares per side of the board.  The source builds an 8 x 8 board
\* (range(8) in build_corridor_graph); the model checks a smaller one.
BoardN == 4
\* Largest number of occupied squares of a board drawn for the planners.
MaxOcc == 1

\* ---------------------------------------------------------------- geometry
Px(n) == 10 * n
Abs(x) == IF x < 0 THEN -x ELSE x

MARGIN == Px(32)
SQUARE == (Px(640) - 2 * MARGIN) \div 8
BOARD_PIXELS == 2 * MARGIN + SQUARE * BoardN
HALF == SQUARE \div 2

Ranks == 0 .. (BoardN - 1)
Squares == Ranks \X Ranks            \* <<r, c>>, as sq_to_rc returns

rc_to_center_xy(r, c) ==
    << MARGIN + c * SQUARE + HALF,
       MARGIN + ((BoardN - 1) - r) * SQUARE + HALF >>

\* ------------------------------------------------------------ corridor graph
CNode(r, c) == << "C", r, c >>
HNode(r, c) == << "H", r, c >>
VNode(r, c) == << "V", r, c >>

NODES ==
    {CNode(s[1], s[2]) : s \in Squares}
        \cup {HNode(r, c) : r \in Ranks, c \in 0 .. (BoardN - 2)}
        \cup {VNode(r, c) : r \in 0 .. (BoardN - 2), c \in Ranks}

\* The pairs link(a, b) joins in build_corridor_graph.
LINKS ==
    {<< HNode(r, c), CNode(r, c) >> : r \in Ranks, c \in 0 .. (BoardN - 2)}
        \cup {<< HNode(r, c), CNode(r, c + 1) >> : r \in Ranks, c \in 0 .. (BoardN - 2)}
        \cup {<< VNode(r, c), CNode(r, c) >> : r \in 0 .. (BoardN - 2), c \in Ranks}
        \cup {<< VNode(r, c), CNode(r + 1, c) >> : r \in 0 .. (BoardN - 2), c \in Ranks}

EDGES ==
    [n \in NODES |->
        {m \in NODES : << n, m >> \in LINKS \/ << m, n >> \in LINKS}]

\* node_xy, tabulated once over the nodes of the graph.
NODE_XY ==
    [n \in NODES |->
        IF n[1] = "C" THEN rc_to_center_xy(n[2], n[3])
        ELSE LET a == rc_to_center_xy(n[2], n[3])
                 b == IF n[1] = "H" THEN rc_to_center_xy(n[2], n[3] + 1)
                                    ELSE rc_to_center_xy(n[2] + 1, n[3])
             IN  << (a[1] + b[1]) \div 2, (a[2] + b[2]) \div 2 >>]

node_xy(n) == NODE_XY[n]

\* heuristic(a, b): Manhattan distance between the nodes' pixel coordinates.
heuristic(a, b) ==
    Abs(node_xy(a)[1] - node_xy(b)[1]) + Abs(node_xy(a)[2] - node_xy(b)[2])


\* ------------------------------------------------------------------- A*
\* came[n] of a node not yet reached, and the None a_star returns.
NoNode == << "-", 0, 0 >>
NoPath == << >>
\* g.get(nb, 1e18): the cost of a node not yet reached (any value above the
\* number of nodes serves).
INF == 1000000

\* Python's order on the heap entries (f, node): by f, then by the node
\* tuple (kind, r, c), strings before integers position by position.
KindRank(k) == IF k = "C" THEN 0 ELSE IF k = "H" THEN 1 ELSE 2

NodeLess(a, b) ==
    \/ KindRank(a[1]) < KindRank(b[1])
    \/ a[1] = b[1] /\ a[2] < b[2]
    \/ a[1] = b[1] /\ a[2] = b[2] /\ a[3] < b[3]

EntryLess(x, y) == x[1] < y[1] \/ (x[1] = y[1] /\ NodeLess(x[2], y[2]))

\* heapq.heappop: the least entry of the heap.
HeapTop(open) == CHOOSE x \in open : \A y \in open \ {x} : EntryLess(x, y)

\* The order in which "for nb in EDGES[cur]" visits the neighbours.  EDGES[cur]
\* is a Python set, so the order is not fixed by the program; ord is a
\* permutation of the four compass directions and the neighbours are visited
\* in that order of direction.
Dirs == {"E", "W", "S", "N"}

DirOf(cur, nb) ==
    LET a == node_xy(cur)
        b == node_xy(nb)
    IN  IF b[1] > a[1] THEN "E"
        ELSE IF b[1] < a[1] THEN "W"
        ELSE IF b[2] > a[2] THEN "S" ELSE "N"

NbOrders ==
    {o \in [1 .. 4 -> Dirs] : \A i, j \in 1 .. 4 : i # j => o[i] # o[j]}

NB_SEQ ==
    [o \in NbOrders |->
        [cur \in NODES |->
            LET present == SelectSeq(o, LAMBDA d : \E nb \in EDGES[cur] : DirOf(cur, nb) = d)
            IN  [i \in 1 .. Len(present) |->
                    CHOOSE nb \in EDGES[cur] : DirOf(cur, nb) = present[i]]]]

NbSeq(cur, ord) == NB_SEQ[ord][cur]

\* Mutant of IsSkipped: occupied Centers are never skipped.
IsSkippedNever(nb, goal, blocked) == FALSE

\* Mutant of IsSkipped: the goal is skipped too when its square is blocked.
IsSkippedGoalToo(nb, goal, blocked) ==
    nb[1] = "C" /\ << nb[2], nb[3] >> \in blocked

\* "if nb[0] == 'C': ... if is_blocked_center(rr, cc) and nb != goal: continue";
\* blocked is the set of squares is_blocked_center holds of.
IsSkipped(nb, goal, blocked) ==
    nb[1] = "C" /\ << nb[2], nb[3] >> \in blocked /\ nb # goal

\* The body of "for nb in EDGES[cur]" applied to nbs[i], nbs[i+1], ...
\* st = [open, came, g].  An entry of the heap is (f, node) with f kept in
\* tenths, as the coordinates are: Px(t) + heuristic for t + heuristic.
RECURSIVE Relax(_, _, _, _, _, _)
Relax(nbs, i, cur, goal, blocked, st) ==
    IF i > Len(nbs) THEN st
    ELSE LET nb == nbs[i]
             t  == st.g[cur] + 1
         IN  IF IsSkipped(nb, goal, blocked)
             THEN Relax(nbs, i + 1, cur, goal, blocked, st)
             ELSE IF t < st.g[nb]
             THEN Relax(nbs, i + 1, cur, goal, blocked,
                        [open |-> st.open \cup {<< Px(t) + heuristic(nb, goal), nb >>},
                         came |-> [st.came EXCEPT ![nb] = cur],
                         g    |-> [st.g EXCEPT ![nb] = t]])
             ELSE Relax(nbs, i + 1, cur, goal, blocked, st)

\* Mutant of Backtrack: the walk stops before the start node is appended.
RECURSIVE BacktrackNoStart(_, _, _)
BacktrackNoStart(came, n, acc) ==
    IF came[n] = NoNode THEN acc ELSE BacktrackNoStart(came, came[n], << n >> \o acc)

\* path.append(n); n = came[n] ... path.reverse()
RECURSIVE Backtrack(_, _, _)
Backtrack(came, n, acc) ==
    IF n = NoNode THEN acc ELSE Backtrack(came, came[n], << n >> \o acc)

RECURSIVE AStarLoop(_, _, _, _)
AStarLoop(goal, blocked, ord, st) ==
    IF st.open = {} THEN NoPath
    ELSE LET top == HeapTop(st.open)
             cur == top[2]
         IN  IF cur = goal THEN Backtrack(st.came, cur, << >>)
             ELSE AStarLoop(goal, blocked, ord,
                            Relax(NbSeq(cur, ord), 1, cur, goal, blocked,
                                  [st EXCEPT !.open = st.open \ {top}]))

\* a_star(start, goal, is_blocked_center): the node path, or NoPath for None.
a_star(start, goal, blocked, ord) ==
    AStarLoop(goal, blocked, ord,
              [open |-> {<< 0, start >>},
               came |-> [n \in NODES |-> NoNode],
               g    |-> [n \in NODES |-> IF n = start THEN 0 ELSE INF]])


\* ------------------------------------------------------------- board snapshot
\* A chess.Board as the planners read it: the piece on every square.
NoPiece == [type |-> "none", color |-> "none"]
Colors == {"white", "black"}
PieceTypes == {"P", "N", "K", "R", "Q"}
Pieces == [type : PieceTypes, color : Colors]

board_occupied_rc(b) == {s \in Squares : b[s] # NoPiece}

\* What a planner hands back: the waypoint list, or the RuntimeError it raised.
Raised == [err |-> TRUE, pts |-> << >>]
Returned(pts) == [err |-> FALSE, pts |-> pts]

PointsOf(nodes) == [i \in 1 .. Len(nodes) |-> node_xy(nodes[i])]

plan_corridor_path(b, src_sq, dst_sq, ord) ==
    LET occ     == board_occupied_rc(b)
        blocked == occ \ {src_sq}
        nodes   == a_star(CNode(src_sq[1], src_sq[2]), CNode(dst_sq[1], dst_sq[2]),
                          blocked, ord)
    IN  IF nodes = NoPath THEN Raised ELSE Returned(PointsOf(nodes))

\* nearest_node_to_xy keeps the first node of least Manhattan distance in the
\* iteration order of the set NODES, which the program does not fix: any node
\* of least distance can be the result.  NearestNodes(xy) is the set of them.
Manhattan(p, q) == Abs(p[1] - q[1]) + Abs(p[2] - q[2])

NearestNodes(xy) ==
    {n \in NODES : \A m \in NODES : Manhattan(node_xy(n), xy) <= Manhattan(node_xy(m), xy)}

\* corridor_between_points, once nearest_node_to_xy has returned start and goal.
corridor_between_points(b, start, goal, ord) ==
    LET occ     == board_occupied_rc(b)
        exempt  == (IF start[1] = "C" THEN {<< start[2], start[3] >>} ELSE {})
                       \cup (IF goal[1] = "C" THEN {<< goal[2], goal[3] >>} ELSE {})
        blocked == occ \ exempt
        nodes   == a_star(start, goal, blocked, ord)
    IN  IF nodes = NoPath THEN Raised ELSE Returned(PointsOf(nodes))

\* corridor_to_point, once nearest_node_to_xy has returned goal.
corridor_to_point(b, from_sq, goal, ord) ==
    LET occ     == board_occupied_rc(b)
        blocked == occ \ {from_sq}
        nodes   == a_star(CNode(from_sq[1], from_sq[2]), goal, blocked, ord)
    IN  IF nodes = NoPath THEN Raised ELSE Returned(PointsOf(nodes))

\* ------------------------------------------------------------- knight router
\* Mutant of ScreenDirY: the rank direction is not turned into screen y.
ScreenDirYUp(dr) == IF dr > 0 THEN 1 ELSE -1

\* "dir_y = -1 if dr > 0 else 1  # screen Y down is +"
ScreenDirY(dr) == IF dr > 0 THEN -1 ELSE 1

\* "dir_x = 1 if dc > 0 else -1"
ScreenDirX(dc) == IF dc > 0 THEN 1 ELSE -1

IsKnightOffset(src, dst) ==
    \/ Abs(dst[1] - src[1]) = 2 /\ Abs(dst[2] - src[2]) = 1
    \/ Abs(dst[1] - src[1]) = 1 /\ Abs(dst[2] - src[2]) = 2

\* plan_knight_route_on_lines(board, move); the last line of the function
\* hands every other offset to plan_corridor_path.
plan_knight_route_on_lines(b, src, dst, ord) ==
    LET dr  == dst[1] - src[1]
        dc  == dst[2] - src[2]
        p0  == rc_to_center_xy(src[1], src[2])
        p1  == rc_to_center_xy(dst[1], dst[2])
        two == SQUARE * 2
    IN  IF Abs(dr) = 2 /\ Abs(dc) = 1
        THEN LET lane_x == p0[1] + ScreenDirX(dc) * HALF
             IN  Returned(<< p0, << lane_x, p0[2] >>,
                             << lane_x, p0[2] + ScreenDirY(dr) * two >>, p1 >>)
        ELSE IF Abs(dr) = 1 /\ Abs(dc) = 2
        THEN LET lane_y == p0[2] + ScreenDirY(dr) * HALF
             IN  Returned(<< p0, << p0[1], lane_y >>,
                             << p0[1] + ScreenDirX(dc) * two, lane_y >>, p1 >>)
        ELSE plan_corridor_path(b, src, dst, ord)

\* ------------------------------------------------------------------ graveyard
SIDEBAR_W == Px(96)
INPUT_H == Px(56)
WIN_H == BOARD_PIXELS + INPUT_H
GRAVE_COLS == 2
GRAVE_ROWS == 10

\* init_grave_positions: row by row, GRAVE_COLS slots to a row.
grave_positions ==
    [i \in 1 .. (GRAVE_ROWS * GRAVE_COLS) |->
        LET r     == (i - 1) \div GRAVE_COLS
            c     == (i - 1) % GRAVE_COLS
            col_w == SIDEBAR_W \div GRAVE_COLS
        IN  << BOARD_PIXELS + c * col_w + col_w \div 2,
               MARGIN + r * ((SQUARE * 9) \div 10) + (SQUARE * 45) \div 100 >>]

\* Mutant of GraveIndex: the index is the number of captures of both colours.
GraveIndexBoth(color, cw, cb) == Len(cw) + Len(cb)

\* "arr = captured_white if color == chess.WHITE else captured_black;
\* idx = len(arr)": the slot ordinal next_grave_xy hands out.
GraveIndex(color, cw, cb) == Len(IF color = "white" THEN cw ELSE cb)

\* next_grave_xy(color), reading the globals captured_white (cw) and
\* captured_black (cb); grave_positions is indexed from 1 here.
next_grave_xy(color, cw, cb) ==
    LET idx == GraveIndex(color, cw, cb)
    IN  IF idx < Len(grave_positions) THEN grave_positions[idx + 1]
        ELSE << BOARD_PIXELS + SIDEBAR_W \div 2, WIN_H - INPUT_H - Px(20) - idx * Px(10) >>

\* ------------------------------------------------- margin / perimeter route
\* min(..., key=...) keeps the first of the least: left, right, top, bottom.
NearestEdge(cap_xy) ==
    LET d_left   == Abs(cap_xy[1] - MARGIN)
        d_right  == Abs((BOARD_PIXELS - MARGIN) - cap_xy[1])
        d_top    == Abs(cap_xy[2] - MARGIN)
        d_bottom == Abs((BOARD_PIXELS - MARGIN) - cap_xy[2])
    IN  IF d_left <= d_right /\ d_left <= d_top /\ d_left <= d_bottom THEN "left"
        ELSE IF d_right <= d_top /\ d_right <= d_bottom THEN "right"
        ELSE IF d_top <= d_bottom THEN "top" ELSE "bottom"

plan_margin_escape_path(cap_xy, grave_xy) ==
    LET cx      == cap_xy[1]
        cy      == cap_xy[2]
        gx      == grave_xy[1]
        gy      == grave_xy[2]
        edge    == NearestEdge(cap_xy)
        outside == (SQUARE * 6) \div 10
    IN  IF edge \in {"left", "right"}
        THEN LET dir_x     == IF edge = "left" THEN -1 ELSE 1
                 border_x  == IF edge = "left" THEN MARGIN ELSE BOARD_PIXELS - MARGIN
             IN  << << cx, cy >>, << cx + dir_x * HALF, cy >>,
                    << border_x + dir_x * outside, cy >>, << gx, cy >>, << gx, gy >> >>
        ELSE LET dir_y     == IF edge = "top" THEN -1 ELSE 1
                 border_y  == IF edge = "top" THEN MARGIN ELSE BOARD_PIXELS - MARGIN
             IN  << << cx, cy >>, << cx, cy + dir_y * HALF >>,
                    << cx, border_y + dir_y * outside >>, << cx, gy >>, << gx, gy >> >>

\* ---------------------------------------------------------- capture sequencer
\* board.ep_square when there is none.
NoSquare == << -1, -1 >>

\* Mutant of is_en_passant: a pawn capture is never taken for en passant.
is_en_passant_never(b, ep, src, dst) == FALSE

is_en_passant(b, ep, src, dst) ==
    /\ b[src] # NoPiece
    /\ b[src].type = "P"
    /\ src[2] # dst[2]
    /\ b[dst] = NoPiece
    /\ ep = dst

\* "cap_sq = chess.square(file of dst, rank of src)" or dst.
CapturedSquare(b, ep, src, dst) ==
    IF is_en_passant(b, ep, src, dst) THEN << src[1], dst[2] >> ELSE dst

\* "captured_piece.color if captured_piece else chess.WHITE"
CapturedColor(b, cap_sq) == IF b[cap_sq] # NoPiece THEN b[cap_sq].color ELSE "white"

Segment(wps, on) == [waypoints |-> wps, magnet_on |-> on]
Last(seq) == seq[Len(seq)]

CaptureRaised ==
    [err |-> TRUE, segments |-> << >>, captured_color |-> "none", grave_xy |-> << 0, 0 >>]

\* Mutant of CaptureSegments: the magnet is on from the start of the approach.
CaptureSegmentsGrabEarly(path_to_target, margin_path, path_back, path_src_to_dst) ==
    << Segment(path_to_target, TRUE),
       Segment(<< Last(path_to_target) >>, TRUE),
       Segment(margin_path, TRUE),
       Segment(<< Last(margin_path) >>, FALSE),
       Segment(path_back, FALSE),
       Segment(path_src_to_dst, TRUE),
       Segment(<< Last(path_src_to_dst) >>, FALSE) >>

\* Mutant of CaptureSegments: the grab after the approach is left out.
CaptureSegmentsNoGrab(path_to_target, margin_path, path_back, path_src_to_dst) ==
    << Segment(path_to_target, FALSE),
       Segment(margin_path, TRUE),
       Segment(<< Last(margin_path) >>, FALSE),
       Segment(path_back, FALSE),
       Segment(path_src_to_dst, TRUE),
       Segment(<< Last(path_src_to_dst) >>, FALSE) >>

\* "segments = [ ... ]" of plan_capture_sequence.
CaptureSegments(path_to_target, margin_path, path_back, path_src_to_dst) ==
    << Segment(path_to_target, FALSE),
       Segment(<< Last(path_to_target) >>, TRUE),
       Segment(margin_path, TRUE),
       Segment(<< Last(margin_path) >>, FALSE),
       Segment(path_back, FALSE),
       Segment(path_src_to_dst, TRUE),
       Segment(<< Last(path_src_to_dst) >>, FALSE) >>

\* plan_capture_sequence(board, move), reading the globals captured_white (cw)
\* and captured_black (cb).  back_start is what nearest_node_to_xy returned
\* for the graveyard slot inside corridor_between_points; the node nearest to
\* src's centre is src's Center.  A RuntimeError of a planner leaves the
\* function at once.
plan_capture_sequence(b, ep, src, dst, cw, cb, ord, back_start) ==
    LET cap_sq         == CapturedSquare(b, ep, src, dst)
        captured_color == CapturedColor(b, cap_sq)
        to_target      == plan_corridor_path(b, src, cap_sq, ord)
        cap_xy         == rc_to_center_xy(cap_sq[1], cap_sq[2])
        grave_xy       == next_grave_xy(captured_color, cw, cb)
        temp           == [b EXCEPT ![cap_sq] = NoPiece]
        margin_path    == plan_margin_escape_path(cap_xy, grave_xy)
        back           == corridor_between_points(temp, back_start,
                                                  CNode(src[1], src[2]), ord)
        own            == IF b[src] # NoPiece /\ b[src].type = "N"
                          THEN plan_knight_route_on_lines(temp, src, dst, ord)
                          ELSE plan_corridor_path(temp, src, dst, ord)
    IN  IF to_target.err \/ back.err \/ own.err THEN CaptureRaised
        ELSE [err            |-> FALSE,
              segments       |-> CaptureSegments(to_target.pts, margin_path,
                                                 back.pts, own.pts),
              captured_color |-> captured_color,
              grave_xy       |-> grave_xy]

GravePoints == {grave_positions[i] : i \in DOMAIN grave_positions}

\* nearest_node_to_xy, tabulated once over the points it is called with: the
\* graveyard slots and the square centres.
NEAREST ==
    [xy \in GravePoints \cup {rc_to_center_xy(s[1], s[2]) : s \in Squares} |->
        NearestNodes(xy)]

nearest_node_to_xy(xy) == IF xy \in DOMAIN NEAREST THEN NEAREST[xy] ELSE NearestNodes(xy)

\* ------------------------------------------------------------------ animator
\* "TRAVEL_SPEED_PX = 8.0  # no piece" and "DRAG_SPEED_PX = 5.0  # dragging a
\* piece", per tick.
TRAVEL_SPEED_PX == Px(8)
DRAG_SPEED_PX == Px(5)

\* A position of the magnet: the point t units from a on the way to b.  A
\* point p itself is At(p).  Legs along an axis keep the position a point of
\* the grid of tenths; inside any other leg the position is kept by a, b and
\* t, which is exact where the coordinates are not rational.  A position
\* nearer than the tolerance 1e-3 of step() to a waypoint is taken for the
\* waypoint (the 1e-9 in step()'s division is dropped).
At(p) == [a |-> p, b |-> p, t |-> 0]
Along(a, b, t) == [a |-> a, b |-> b, t |-> t]
\* self.pos = None
NoPos == [a |-> << 0, 0 >>, b |-> << 0, 0 >>, t |-> -1]
IsPoint(pos) == pos.a = pos.b /\ pos.t = 0

Sgn(x) == IF x > 0 THEN 1 ELSE IF x < 0 THEN -1 ELSE 0
Min(x, y) == IF x < y THEN x ELSE y
\* math.hypot(dx, dy) squared
Hypot2(p, q) == (q[1] - p[1]) * (q[1] - p[1]) + (q[2] - p[2]) * (q[2] - p[2])

\* Animator.__init__
AnimIdle ==
    [segments |-> << >>, cur_seg_i |-> 0, cur_wp_i |-> 0, pos |-> NoPos,
     done |-> TRUE, last_draw_path |-> << >>]

\* Mutant of AnimatorLoad: the indices of the plan before are kept.
AnimatorLoadKeepsIndex(self, segs, start_pos) ==
    [segments       |-> segs,
     cur_seg_i      |-> self.cur_seg_i,
     cur_wp_i       |-> self.cur_wp_i,
     done           |-> (Len(segs) = 0),
     pos            |-> IF start_pos = NoPos /\ Len(segs) > 0 /\ Len(segs[1].waypoints) > 0
                        THEN At(segs[1].waypoints[1]) ELSE start_pos,
     last_draw_path |-> << >>]

\* Animator.load(segments, start_pos); the indices count from 0 as in the
\* source.
AnimatorLoad(self, segs, start_pos) ==
    [segments       |-> segs,
     cur_seg_i      |-> 0,
     cur_wp_i       |-> 0,
     done           |-> (Len(segs) = 0),
     pos            |-> IF start_pos = NoPos /\ Len(segs) > 0 /\ Len(segs[1].waypoints) > 0
                        THEN At(segs[1].waypoints[1]) ELSE start_pos,
     last_draw_path |-> << >>]

\* Animator.current_magnet_on()
current_magnet_on(self) ==
    IF self.done \/ Len(self.segments) = 0 THEN FALSE
    ELSE self.segments[self.cur_seg_i + 1].magnet_on

\* Mutant of advance_segment: the waypoint index is not reset.
advance_segment_no_reset(self) ==
    [self EXCEPT !.cur_seg_i = self.cur_seg_i + 1,
                 !.done      = self.done \/ (self.cur_seg_i + 1 >= Len(self.segments))]

\* Animator._advance_segment()
advance_segment(self) ==
    [self EXCEPT !.cur_seg_i = self.cur_seg_i + 1,
                 !.cur_wp_i  = 0,
                 !.done      = self.done \/ (self.cur_seg_i + 1 >= Len(self.segments))]

\* Mutant of SpeedOf: the two speeds are taken the wrong way round.
SpeedOfSwapped(seg) == IF seg.magnet_on THEN TRAVEL_SPEED_PX ELSE DRAG_SPEED_PX

\* "speed = DRAG_SPEED_PX if seg['magnet_on'] else TRAVEL_SPEED_PX"
SpeedOf(seg) == IF seg.magnet_on THEN DRAG_SPEED_PX ELSE TRAVEL_SPEED_PX

\* Mutant of Reached: every tick counts the waypoint as reached.
ReachedAlways(pos, target) == TRUE

\* Mutant of Reached: no tick counts the waypoint as reached.
ReachedNever(pos, target) == FALSE

\* "dist < 1e-3", dist the distance from pos to target: a point of the grid
\* of tenths must be the target; inside a leg t < dist, and
\* dist - t < 0.01 tenths.
Reached(pos, target) ==
    IF IsPoint(pos) THEN pos.a = target
    ELSE /\ pos.b = target
         /\ Hypot2(pos.a, pos.b) - pos.t * pos.t <= pos.t
         /\ 100 * (Hypot2(pos.a, pos.b) - pos.t * pos.t) <= 2 * pos.t

\* Mutant of Toward: the step is the speed, however near the target is.
TowardOvershoot(pos, target, speed) ==
    LET p  == pos.b
        dx == target[1] - p[1]
        dy == target[2] - p[2]
    IN  IF dx = 0 \/ dy = 0
        THEN At(<< p[1] + Sgn(dx) * speed, p[2] + Sgn(dy) * speed >>)
        ELSE Along(p, target, IF IsPoint(pos) \/ pos.b # target THEN speed
                              ELSE pos.t + speed)

\* The position after "step = min(speed, dist)" towards target.
Toward(pos, target, speed) ==
    IF IsPoint(pos) \/ pos.b # target
    THEN LET p  == pos.b
             dx == target[1] - p[1]
             dy == target[2] - p[2]
         IN  IF dx = 0 \/ dy = 0
             THEN LET step == Min(speed, Abs(dx) + Abs(dy))
                  IN  At(<< p[1] + Sgn(dx) * step, p[2] + Sgn(dy) * step >>)
             ELSE IF speed * speed >= Hypot2(p, target) THEN At(target)
             ELSE Along(p, target, speed)
    ELSE IF (pos.t + speed) * (pos.t + speed) >= Hypot2(pos.a, pos.b) THEN At(pos.b)
    ELSE Along(pos.a, pos.b, pos.t + speed)

\* "abs(nx - lastx) + abs(ny - lasty) > 0.5", for two points of the grid.
FarApart(new, last) == Manhattan(new.a, last.a) > Px(1) \div 2

\* The trace after a move to new with the magnet on.
Traced(path, new) ==
    IF Len(path) = 0 THEN << new >>
    ELSE IF FarApart(new, path[Len(path)]) THEN Append(path, new)
    ELSE path

\* Mutant of TraceOn: the trace is kept in every segment.
TraceOnAlways(seg) == TRUE

\* "if seg['magnet_on']:", the test under which step() adds to the trace.
TraceOn(seg) == seg.magnet_on

\* step() takes the "dist < 1e-3" branch: the current waypoint is counted as
\* reached.
CountsWaypoint(self) ==
    /\ ~self.done
    /\ Len(self.segments) > 0
    /\ LET wps == self.segments[self.cur_seg_i + 1].waypoints
       IN  /\ Len(wps) > 0
           /\ Reached(IF self.pos = NoPos THEN At(wps[1]) ELSE self.pos,
                      wps[self.cur_wp_i + 1])

\* Mutant of AtRest: a tick of a finished Animator clears the trace.
AtRestCleared(self) == [self EXCEPT !.last_draw_path = << >>]

\* "if self.done or not self.segments: return self.last_draw_path"
AtRest(self) == self

\* Animator.step()
AnimatorStep(self) ==
    IF self.done \/ Len(self.segments) = 0 THEN AtRest(self)
    ELSE LET seg == self.segments[self.cur_seg_i + 1]
             wps == seg.waypoints
         IN  IF Len(wps) = 0 THEN advance_segment(self)
             ELSE LET pos    == IF self.pos = NoPos THEN At(wps[1]) ELSE self.pos
                      target == wps[self.cur_wp_i + 1]
                  IN  IF Reached(pos, target)
                      THEN LET marked ==
                                   [self EXCEPT
                                       !.pos = pos,
                                       !.last_draw_path =
                                           IF TraceOn(seg) THEN Append(@, At(target)) ELSE @,
                                       !.cur_wp_i = @ + 1]
                           IN  IF marked.cur_wp_i >= Len(wps)
                               THEN advance_segment(marked) ELSE marked
                      ELSE LET new == Toward(pos, target, SpeedOf(seg))
                           IN  [self EXCEPT
                                   !.pos = new,
                                   !.last_draw_path =
                                       IF TraceOn(seg) THEN Traced(@, new) ELSE @]

\* board, ep_square, turn, ply: the chess.Board of main (pieces, en-passant
\* square, side to move, length of the move stack).  captured_white,
\* captured_black, error_msg: the globals and the message of main.  segments:
\* what animator.load was last given.  nbOrder: the iteration order of the
\* sets of the corridor graph in this run.  call: the planner call made in a
\* specification that applies one planner to drawn inputs.  assigned: history
\* of the executed captures, (colour, slot ordinal, slot point) each.
\* animator: the Animator of main.  visited: history of the positions at
\* which the Animator counted a waypoint as reached since the last load.
VARIABLES board, ep_square, turn, ply, captured_white, captured_black,
          error_msg, segments, nbOrder, call, assigned, animator, visited,
          drag_sq, vb_board, human_color, req_id, waiting_for_engine, to_engine,
          to_ui, games, issued, live, accepted
\* The state of virtual_board2: its board (the move stack), the colour the
\* human plays, req_id and waiting_for_engine of main, the two queues of the
\* EngineWorker, and the number of games begun.  issued, live and accepted
\* are not in the program: the number of requests made so far, the number of
\* the request the program awaits an answer to (0 if none), and the last
\* answer main took.
engineVars == << vb_board, human_color, req_id, waiting_for_engine, to_engine,
                 to_ui, games, issued, live, accepted >>
vars == << board, ep_square, turn, ply, captured_white, captured_black,
           error_msg, segments, nbOrder, call, assigned, animator, visited,
           drag_sq, engineVars >>
gameVars == << ep_square, turn, ply, captured_white, captured_black,
               error_msg, segments, assigned, animator, visited, drag_sq,
               engineVars >>

NoReply == [ser |-> 0, live |-> 0, pushed |-> FALSE]

\* virtual_board2 not run.
EngineUnused ==
    /\ vb_board = << >>
    /\ human_color = "white"
    /\ req_id = 0
    /\ waiting_for_engine = FALSE
    /\ to_engine = << >>
    /\ to_ui = << >>
    /\ games = 0
    /\ issued = 0
    /\ live = 0
    /\ accepted = NoReply

\* The state of printer_sim's main right after its set-up, the board apart.
SimFresh ==
    /\ ep_square = NoSquare
    /\ turn = "white"
    /\ ply = 0
    /\ captured_white = << >>
    /\ captured_black = << >>
    /\ error_msg = ""
    /\ segments = << >>
    /\ assigned = << >>
    /\ animator = AnimIdle
    /\ visited = << >>
    /\ drag_sq = NoSquare

GameFresh == SimFresh /\ EngineUnused

NoCall == [fn |-> "none"]

\* Boards drawn for the planners: at most MaxOcc occupied squares, or at most
\* MaxOcc free ones.  The planners read only which squares are occupied, so
\* one piece stands for all.
Blocker == [type |-> "P", color |-> "white"]
BoardOf(occ) == [s \in Squares |-> IF s \in occ THEN Blocker ELSE NoPiece]
\* The subsets of S of at most k elements.
RECURSIVE SubsetsUpTo(_, _)
SubsetsUpTo(S, k) ==
    IF k = 0 THEN {{}}
    ELSE LET P == SubsetsUpTo(S, k - 1) IN P \cup {p \cup {x} : p \in P, x \in S}

PlanBoards ==
    {BoardOf(o) : o \in SubsetsUpTo(Squares, MaxOcc)}
        \cup {BoardOf(Squares \ o) : o \in SubsetsUpTo(Squares, MaxOcc)}

\* The iteration orders drawn for the planner: one order and its reverse.
PlanOrders == {<< "E", "W", "S", "N" >>, << "N", "S", "W", "E" >>}

InitPlan ==
    /\ board \in PlanBoards
    /\ nbOrder \in PlanOrders
    /\ call = NoCall
    /\ GameFresh

CallPlanCorridorPath(s, d) ==
    /\ call = NoCall
    /\ call' = [fn |-> "plan_corridor_path", start |-> CNode(s[1], s[2]),
                goal |-> CNode(d[1], d[2]),
                ret |-> plan_corridor_path(board, s, d, nbOrder)]
    /\ UNCHANGED << board, nbOrder, gameVars >>

CallCorridorBetweenPoints(xy_start, xy_end) ==
    /\ call = NoCall
    /\ \E start \in nearest_node_to_xy(xy_start), goal \in nearest_node_to_xy(xy_end) :
          call' = [fn |-> "corridor_between_points", start |-> start, goal |-> goal,
                   ret |-> corridor_between_points(board, start, goal, nbOrder)]
    /\ UNCHANGED << board, nbOrder, gameVars >>

CallCorridorToPoint(s, xy_end) ==
    /\ call = NoCall
    /\ \E goal \in nearest_node_to_xy(xy_end) :
          call' = [fn |-> "corridor_to_point", start |-> CNode(s[1], s[2]), goal |-> goal,
                   ret |-> corridor_to_point(board, s, goal, nbOrder)]
    /\ UNCHANGED << board, nbOrder, gameVars >>

NextPlan ==
    \/ \E s, d \in Squares : CallPlanCorridorPath(s, d)
    \/ \E g \in GravePoints, s \in Squares :
          CallCorridorBetweenPoints(g, rc_to_center_xy(s[1], s[2]))
    \/ \E s \in Squares, g \in GravePoints : CallCorridorToPoint(s, g)

SpecPlan == InitPlan /\ [][NextPlan]_vars

\* Boards on which only the endpoints of the call are occupied, visited under
\* every order of the neighbours.
InitEmpty ==
    /\ board \in {BoardOf({s, d}) : s, d \in Squares}
    /\ nbOrder \in NbOrders
    /\ call = NoCall
    /\ GameFresh

NextEmpty ==
    /\ call = NoCall
    /\ LET occ == board_occupied_rc(board)
       IN  \E s \in occ : \E d \in {d \in Squares : occ \subseteq {s, d}} :
               CallPlanCorridorPath(s, d)

SpecEmpty == InitEmpty /\ [][NextEmpty]_vars

\* ------------------------------------------------------- knight router calls
CallKnightRoute(s, d) ==
    /\ call = NoCall
    /\ call' = [fn |-> "plan_knight_route_on_lines", src |-> s, dst |-> d,
                ret |-> plan_knight_route_on_lines(board, s, d, nbOrder)]
    /\ UNCHANGED << board, nbOrder, gameVars >>

\* The router called on knight moves only, as plan_normal_move and
\* plan_capture_sequence call it for a legal move of a knight.
NextKnight == \E s, d \in Squares : IsKnightOffset(s, d) /\ CallKnightRoute(s, d)

SpecKnight == InitPlan /\ [][NextKnight]_vars

\* The router called with any pair of squares.
NextKnightAny == \E s, d \in Squares : s # d /\ CallKnightRoute(s, d)

SpecKnightAny == InitPlan /\ [][NextKnightAny]_vars

\* -------------------------------------------------------------- normal move
NormalSegments(path) == << Segment(path, TRUE), Segment(<< Last(path) >>, FALSE) >>

\* Mutant of plan_normal_move: the knight is routed like any other piece.
plan_normal_move_no_knight(b, src, dst, ord) ==
    LET path == plan_corridor_path(b, src, dst, ord)
    IN  IF path.err THEN [err |-> TRUE, segments |-> << >>]
        ELSE [err |-> FALSE, segments |-> NormalSegments(path.pts)]

plan_normal_move(b, src, dst, ord) ==
    LET path == IF b[src] # NoPiece /\ b[src].type = "N"
                THEN plan_knight_route_on_lines(b, src, dst, ord)
                ELSE plan_corridor_path(b, src, dst, ord)
    IN  IF path.err THEN [err |-> TRUE, segments |-> << >>]
        ELSE [err |-> FALSE, segments |-> NormalSegments(path.pts)]

\* ------------------------------------------------- the chess library, as used
\* What main asks of python-chess: "mv in board.legal_moves",
\* board.is_capture(mv) and board.push(mv).  Moves follow the geometry of the
\* piece; check, castling and the double step of a pawn are left out, and no
\* move captures a king.
Other(color) == IF color = "white" THEN "black" ELSE "white"
Fwd(color) == IF color = "white" THEN 1 ELSE -1
Piece(t, c) == [type |-> t, color |-> c]

StrictlyBetween(s, q, d) ==
    /\ q # s
    /\ q # d
    /\ (q[1] - s[1]) * (d[2] - s[2]) = (q[2] - s[2]) * (d[1] - s[1])
    /\ Abs(q[1] - s[1]) <= Abs(d[1] - s[1])
    /\ Abs(q[2] - s[2]) <= Abs(d[2] - s[2])
    /\ (q[1] - s[1]) * (d[1] - s[1]) >= 0
    /\ (q[2] - s[2]) * (d[2] - s[2]) >= 0

LineClear(b, s, d) == \A q \in Squares : StrictlyBetween(s, q, d) => b[q] = NoPiece

Reaches(b, ep, s, d) ==
    LET dr == d[1] - s[1]
        dc == d[2] - s[2]
        p  == b[s]
    IN  CASE p.type = "N" -> IsKnightOffset(s, d)
          [] p.type = "K" -> Abs(dr) <= 1 /\ Abs(dc) <= 1
          [] p.type = "R" -> (dr = 0 \/ dc = 0) /\ LineClear(b, s, d)
          [] p.type = "Q" -> (dr = 0 \/ dc = 0 \/ Abs(dr) = Abs(dc)) /\ LineClear(b, s, d)
          [] p.type = "P" ->
                /\ dr = Fwd(p.color)
                /\ \/ dc = 0 /\ b[d] = NoPiece
                   \/ Abs(dc) = 1 /\ b[d] # NoPiece
                   \/ /\ Abs(dc) = 1
                      /\ ep = d
                      /\ b[d] = NoPiece
                      /\ b[<< s[1], d[2] >>] = Piece("P", Other(p.color))

\* Move(s, d) in board.legal_moves
IsLegal(b, ep, s, d) ==
    /\ d # s
    /\ b[d] = NoPiece \/ (b[d].color # b[s].color /\ b[d].type # "K")
    /\ Reaches(b, ep, s, d)

\* board.is_en_passant(mv): a pawn stepping diagonally onto the empty
\* en-passant square.
board_is_en_passant(b, ep, s, d) ==
    /\ b[s] # NoPiece
    /\ b[s].type = "P"
    /\ ep = d
    /\ Abs(d[2] - s[2]) = 1
    /\ b[d] = NoPiece

\* board.is_capture(mv)
is_capture(b, ep, s, d) == b[d] # NoPiece \/ board_is_en_passant(b, ep, s, d)

\* The pieces after board.push(mv); promo is the piece a pawn turns into on
\* the last rank.
Pushed(b, ep, s, d, promo) ==
    LET cap   == IF board_is_en_passant(b, ep, s, d) THEN << s[1], d[2] >> ELSE d
        moved == IF b[s].type = "P" /\ d[1] \in {0, BoardN - 1}
                 THEN Piece(promo, b[s].color) ELSE b[s]
    IN  [q \in Squares |->
            IF q = d THEN moved
            ELSE IF q = s \/ q = cap THEN NoPiece
            ELSE b[q]]

\* The squares board.ep_square can name on b: an empty square a pawn has just
\* stepped over.
EpSquares(b) ==
    {e \in Squares :
        /\ b[e] = NoPiece
        /\ \E c \in Colors :
              /\ << e[1] + Fwd(c), e[2] >> \in Squares
              /\ << e[1] - Fwd(c), e[2] >> \in Squares
              /\ b[<< e[1] + Fwd(c), e[2] >>] = Piece("P", c)
              /\ b[<< e[1] - Fwd(c), e[2] >>] = NoPiece}

\* ------------------------------------------------- capture sequencer calls
\* Largest number of captures already recorded, all of one colour, when a
\* capture plan is drawn.
MaxCaptured == 1

\* captured_white or captured_black after k captures of that colour.
CapturedAfter(k) == [i \in 1 .. k |-> grave_positions[i]]

\* Boards drawn for the capture sequencer: a capturing piece, an enemy pawn it
\* attacks, and at most MaxOcc bystanders.
AttackBoard(s, mt, mc, v, extras) ==
    [q \in Squares |->
        IF q = s THEN Piece(mt, mc)
        ELSE IF q = v THEN Piece("P", Other(mc))
        ELSE IF q \in extras THEN Piece("K", mc)
        ELSE NoPiece]

\* Some capture is legal for the piece on s.
CanCapture(b, ep, s) == \E d \in Squares : IsLegal(b, ep, s, d) /\ is_capture(b, ep, s, d)

InitCapture ==
    /\ \E s \in Squares, v \in Squares, mt \in {"P", "N", "R"}, mc \in Colors :
          \E x \in SubsetsUpTo(Squares \ {s, v}, MaxOcc) :
              /\ s # v
              /\ board = AttackBoard(s, mt, mc, v, x)
              /\ ep_square \in {NoSquare} \cup EpSquares(board)
              /\ CanCapture(board, ep_square, s)
    /\ \E c \in Colors, k \in 0 .. MaxCaptured :
          /\ captured_white = (IF c = "white" THEN CapturedAfter(k) ELSE << >>)
          /\ captured_black = (IF c = "black" THEN CapturedAfter(k) ELSE << >>)
    /\ nbOrder \in PlanOrders
    /\ call = NoCall
    /\ turn = "white"
    /\ ply = 0
    /\ error_msg = ""
    /\ segments = << >>
    /\ assigned = << >>
    /\ animator = AnimIdle
    /\ visited = << >>
    /\ drag_sq = NoSquare
    /\ EngineUnused

CallPlanCaptureSequence(s, d) ==
    /\ call = NoCall
    /\ board[s] # NoPiece
    /\ IsLegal(board, ep_square, s, d)
    /\ is_capture(board, ep_square, s, d)
    /\ LET cap_sq   == CapturedSquare(board, ep_square, s, d)
           grave_xy == next_grave_xy(CapturedColor(board, cap_sq),
                                     captured_white, captured_black)
       IN  \E back_start \in nearest_node_to_xy(grave_xy) :
               call' = [fn |-> "plan_capture_sequence", src |-> s, dst |-> d,
                        ret |-> plan_capture_sequence(board, ep_square, s, d,
                                                      captured_white, captured_black,
                                                      nbOrder, back_start)]
    /\ UNCHANGED << board, nbOrder, gameVars >>

NextCapture ==
    \E s \in board_occupied_rc(board) : \E d \in Squares : CallPlanCaptureSequence(s, d)

SpecCapture == InitCapture /\ [][NextCapture]_vars

\* ------------------------------------------------------------ the game loop
\* Largest number of moves pushed on the board.
MaxMoves == 3

PlaceBoard(placed) ==
    [q \in Squares |->
        IF \E pl \in placed : pl[1] = q
        THEN (CHOOSE pl \in placed : pl[1] = q)[2] ELSE NoPiece]

\* The positions a game is taken up from, white to move: one in which the
\* knight in the corner is shut in by its own king and pawn, and one in which
\* a black pawn has just made its double step past a white pawn.
StartShutIn ==
    [board |-> PlaceBoard({<< << 0, 0 >>, Piece("N", "white") >>,
                           << << 0, 1 >>, Piece("K", "white") >>,
                           << << 1, 0 >>, Piece("P", "white") >>,
                           << << 2, 1 >>, Piece("P", "black") >>,
                           << << 3, 1 >>, Piece("R", "black") >>,
                           << << 3, 3 >>, Piece("K", "black") >>}),
     ep |-> NoSquare]

StartEnPassant ==
    [board |-> PlaceBoard({<< << 1, 1 >>, Piece("P", "white") >>,
                           << << 1, 2 >>, Piece("P", "black") >>,
                           << << 0, 3 >>, Piece("K", "white") >>,
                           << << 3, 0 >>, Piece("K", "black") >>}),
     ep |-> << 2, 2 >>]

GameStarts == {StartShutIn, StartEnPassant}

InitGame ==
    /\ \E st \in GameStarts : board = st.board /\ ep_square = st.ep
    /\ turn = "white"
    /\ ply = 0
    /\ captured_white = << >>
    /\ captured_black = << >>
    /\ error_msg = ""
    /\ segments = << >>
    /\ nbOrder \in PlanOrders
    /\ call = NoCall
    /\ assigned = << >>
    /\ animator = AnimIdle
    /\ visited = << >>
    /\ drag_sq = NoSquare
    /\ EngineUnused

PathError == "Capture path error"

\* Mutant of RecordCapture: the slot is appended to the other colour's list.
RecordCaptureSwapped(cap_color, cap_xy, cw, cb) ==
    IF cap_color = "white" THEN << cw, Append(cb, cap_xy) >>
    ELSE << Append(cw, cap_xy), cb >>

\* "if cap_color == chess.WHITE: captured_white.append(cap_xy) else:
\* captured_black.append(cap_xy)": the two lists afterwards.
RecordCapture(cap_color, cap_xy, cw, cb) ==
    IF cap_color = "white" THEN << Append(cw, cap_xy), cb >>
    ELSE << cw, Append(cb, cap_xy) >>

\* Mutant of Rejected: the Animator is emptied when planning fails.
RejectedAndUnloaded ==
    /\ error_msg' = PathError
    /\ call' = [fn |-> "rejected"]
    /\ animator' = AnimatorLoad(animator, << >>, NoPos)
    /\ UNCHANGED << board, ep_square, turn, ply, captured_white,
                    captured_black, segments, assigned, visited >>

\* "except Exception as e: error_msg = ...": a planner raised, which ends
\* the try block before animator.load.
Rejected ==
    /\ error_msg' = PathError
    /\ call' = [fn |-> "rejected"]
    /\ UNCHANGED << board, ep_square, turn, ply, captured_white,
                    captured_black, segments, assigned, animator, visited >>

\* "start_pos = segments[0]['waypoints'][0] if segments and
\* segments[0]['waypoints'] else None; animator.load(segments, start_pos)"
LoadPlan(segs) ==
    LET start_pos == IF Len(segs) > 0 /\ Len(segs[1].waypoints) > 0
                     THEN At(segs[1].waypoints[1]) ELSE NoPos
    IN  /\ segments' = segs
        /\ animator' = AnimatorLoad(animator, segs, start_pos)
        /\ visited' = << >>
        /\ call' = [fn |-> "load", plan |-> segs, start_pos |-> start_pos,
                     before |-> animator]

\* The try block main runs for a legal move mv = (s, d), after both the mouse
\* release and the Enter key: plan, animator.load, record the capture,
\* board.push; any exception of the planners ends it with the message set and
\* nothing else changed.  msg is error_msg as the handler left it before.
TryMove(s, d, promo, msg) ==
    IF is_capture(board, ep_square, s, d)
    THEN LET cap_sq    == CapturedSquare(board, ep_square, s, d)
             cap_color == CapturedColor(board, cap_sq)
             grave_xy  == next_grave_xy(cap_color, captured_white, captured_black)
         IN  \E back_start \in nearest_node_to_xy(grave_xy) :
             \E r \in {plan_capture_sequence(board, ep_square, s, d, captured_white,
                                             captured_black, nbOrder, back_start)} :
                 IF r.err
                 THEN Rejected
                 ELSE \E lists \in {RecordCapture(r.captured_color, r.grave_xy,
                                                  captured_white, captured_black)} :
                      /\ LoadPlan(r.segments)
                      /\ captured_white' = lists[1]
                      /\ captured_black' = lists[2]
                      /\ assigned' = Append(assigned,
                            [color   |-> r.captured_color,
                             ordinal |-> GraveIndex(r.captured_color,
                                                    captured_white, captured_black),
                             xy      |-> r.grave_xy])
                      /\ board' = Pushed(board, ep_square, s, d, promo)
                      /\ ep_square' = NoSquare
                      /\ turn' = Other(turn)
                      /\ ply' = ply + 1
                      /\ error_msg' = msg
    ELSE \E r \in {plan_normal_move(board, s, d, nbOrder)} :
             IF r.err
             THEN Rejected
             ELSE /\ LoadPlan(r.segments)
                  /\ board' = Pushed(board, ep_square, s, d, promo)
                  /\ ep_square' = NoSquare
                  /\ turn' = Other(turn)
                  /\ ply' = ply + 1
                  /\ error_msg' = msg
                  /\ UNCHANGED << captured_white, captured_black, assigned >>

IsLegalMove(s, d) ==
    /\ ply < MaxMoves
    /\ board[s] # NoPiece
    /\ board[s].color = turn
    /\ IsLegal(board, ep_square, s, d)

\* "animator.done", asked before a drag starts.
AnimatorIdle == animator.done

\* MOUSEBUTTONDOWN on square s: a drag starts if the Animator is done and s
\* holds a piece of the side to move.
MouseDown(s) ==
    /\ AnimatorIdle
    /\ board[s] # NoPiece
    /\ board[s].color = turn
    /\ drag_sq' = s
    /\ call' = [fn |-> "down"]
    /\ UNCHANGED engineVars
    /\ UNCHANGED << board, nbOrder, ep_square, turn, ply, captured_white,
                    captured_black, error_msg, segments, assigned, animator, visited >>

\* MOUSEBUTTONUP on square d, or off the board (NoSquare), while dragging:
\* the drag ends, and a legal move from drag_sq to d goes through the try
\* block; a pawn dropped on the last rank becomes a queen.
MouseRelease(d) ==
    /\ drag_sq # NoSquare
    /\ drag_sq' = NoSquare
    /\ IF d # NoSquare /\ d # drag_sq /\ IsLegalMove(drag_sq, d)
       THEN TryMove(drag_sq, d, "Q", error_msg)
       ELSE /\ call' = [fn |-> "release"]
            /\ UNCHANGED << board, ep_square, turn, ply, captured_white,
                            captured_black, error_msg, segments, assigned, animator,
                            visited >>
    /\ UNCHANGED << nbOrder, engineVars >>

\* K_RETURN with the UCI text of the move (s, d), with the promotion piece it
\* names; error_msg is cleared first.
UciMove(s, d, promo) ==
    /\ IsLegalMove(s, d)
    /\ promo # "Q" => (board[s].type = "P" /\ d[1] \in {0, BoardN - 1})
    /\ TryMove(s, d, promo, "")
    /\ UNCHANGED << nbOrder, drag_sq, engineVars >>

\* The events of one frame's queue, no frame passing.
NextGame ==
    \/ \E s \in Squares : MouseDown(s)
    \/ \E d \in Squares \cup {NoSquare} : MouseRelease(d)
    \/ \E s \in board_occupied_rc(board) : \E d \in Squares :
          \E promo \in {"Q", "R", "N"} : UciMove(s, d, promo)

SpecGame == InitGame /\ [][NextGame]_vars

\* --------------------------------------------------------- normal move calls
\* Boards drawn for plan_normal_move: the piece to move and at most MaxOcc
\* bystanders of its colour.
MoverBoard(s, mt, mc, extras) ==
    [q \in Squares |->
        IF q = s THEN Piece(mt, mc)
        ELSE IF q \in extras THEN Piece("P", mc)
        ELSE NoPiece]

InitNormal ==
    /\ \E s \in Squares, mt \in {"P", "N", "R", "K"}, mc \in Colors :
          \E x \in SubsetsUpTo(Squares \ {s}, MaxOcc) :
              board = MoverBoard(s, mt, mc, x)
    /\ nbOrder \in PlanOrders
    /\ call = NoCall
    /\ GameFresh

\* plan_normal_move for a legal move that is no capture.
CallPlanNormalMove(s, d) ==
    /\ call = NoCall
    /\ board[s] # NoPiece
    /\ IsLegal(board, ep_square, s, d)
    /\ ~is_capture(board, ep_square, s, d)
    /\ call' = [fn |-> "plan_normal_move", src |-> s, dst |-> d,
                ret |-> plan_normal_move(board, s, d, nbOrder)]
    /\ UNCHANGED << board, nbOrder, gameVars >>

NextNormal ==
    \E s \in board_occupied_rc(board) : \E d \in Squares : CallPlanNormalMove(s, d)

SpecNormal == InitNormal /\ [][NextNormal]_vars

\* ------------------------------------------------------------------ castling
\* chess.FILE_NAMES.index of 'a', 'd', 'f' and 'h'.  The a-side files count
\* from the left rim and the h-side files from the right rim, so that on the
\* 8-file board they are 0, 3, 5 and 7.
FILE_A == 0
FILE_D == 3
FILE_F == BoardN - 3
FILE_H == BoardN - 1

CastlingSegments(rook_path, king_path) ==
    << Segment(rook_path, TRUE),
       Segment(<< Last(rook_path) >>, FALSE),
       Segment(king_path, TRUE),
       Segment(<< Last(king_path) >>, FALSE) >>

\* Mutant of RookRelocated: the copy is left as the board was.
RookNotRelocated(b, rook_from, rook_to) == b

\* "tmp = board.copy(); tmp.push(chess.Move(rook_from, rook_to))": the pieces
\* of tmp.
RookRelocated(b, rook_from, rook_to) ==
    [b EXCEPT ![rook_to] = b[rook_from], ![rook_from] = NoPiece]

\* The rook's squares for the king's move src -> dst.
RookFrom(src, dst) == << src[1], IF dst[2] > src[2] THEN FILE_H ELSE FILE_A >>
RookTo(src, dst) == << src[1], IF dst[2] > src[2] THEN FILE_F ELSE FILE_D >>

\* plan_castling(board, move); a RuntimeError of the planner leaves it.
plan_castling(b, src, dst, ord) ==
    LET rook_from == RookFrom(src, dst)
        rook_to   == RookTo(src, dst)
        rook_path == plan_corridor_path(b, rook_from, rook_to, ord)
        tmp       == RookRelocated(b, rook_from, rook_to)
        king_path == plan_corridor_path(tmp, src, dst, ord)
    IN  IF rook_path.err \/ king_path.err THEN [err |-> TRUE, segments |-> << >>]
        ELSE [err |-> FALSE, segments |-> CastlingSegments(rook_path.pts, king_path.pts)]

\* Largest number of pieces on the board besides the castling king and rook.
MaxAround == 2

\* The castlings the board has room for: the king's home file is four files
\* right of the a-file (queenside) or three left of the h-file (kingside),
\* its rank the first rank of its colour.
CastlingSides == {"king", "queen"}
KingHome(side, color) ==
    << IF color = "white" THEN 0 ELSE BoardN - 1,
       IF side = "king" THEN FILE_H - 3 ELSE FILE_A + 4 >>
KingGoal(side, color) ==
    << KingHome(side, color)[1],
       IF side = "king" THEN KingHome(side, color)[2] + 2
       ELSE KingHome(side, color)[2] - 2 >>
RookHome(side, color) ==
    << KingHome(side, color)[1], IF side = "king" THEN FILE_H ELSE FILE_A >>

\* The squares of the wing: from the king's to the rook's.
WingSquares(side, color) ==
    LET k == KingHome(side, color)[2]
        r == RookHome(side, color)[2]
    IN  {q \in Squares : /\ q[1] = KingHome(side, color)[1]
                         /\ (k <= q[2] /\ q[2] <= r) \/ (r <= q[2] /\ q[2] <= k)}

\* A position in which castling on that side is legal: king and rook at
\* home, nothing between them, other pieces elsewhere.
CastlingBoard(side, color, around) ==
    [q \in Squares |->
        IF q = KingHome(side, color) THEN Piece("K", color)
        ELSE IF q = RookHome(side, color) THEN Piece("R", color)
        ELSE IF q \in around THEN Piece("P", color)
        ELSE NoPiece]

InitCastling ==
    /\ \E side \in CastlingSides, color \in Colors :
          /\ KingHome(side, color) \in Squares
          /\ RookHome(side, color) \in Squares
          /\ \E around \in SubsetsUpTo(Squares \ WingSquares(side, color), MaxAround) :
                board = CastlingBoard(side, color, around)
    /\ nbOrder \in PlanOrders
    /\ call = NoCall
    /\ GameFresh

\* plan_castling for the castling move the board allows.
CallPlanCastling(side, color) ==
    /\ call = NoCall
    /\ KingHome(side, color) \in Squares
    /\ RookHome(side, color) \in Squares
    /\ board[KingHome(side, color)] = Piece("K", color)
    /\ board[RookHome(side, color)] = Piece("R", color)
    /\ \A q \in WingSquares(side, color) \ {KingHome(side, color), RookHome(side, color)} :
          board[q] = NoPiece
    /\ call' = [fn |-> "plan_castling",
                src |-> KingHome(side, color), dst |-> KingGoal(side, color),
                ret |-> plan_castling(board, KingHome(side, color),
                                      KingGoal(side, color), nbOrder)]
    /\ UNCHANGED << board, nbOrder, gameVars >>

NextCastling == \E side \in CastlingSides, color \in Colors : CallPlanCastling(side, color)

SpecCastling == InitCastling /\ [][NextCastling]_vars

\* ------------------------------------------------------ margin route calls
\* plan_margin_escape_path applied to the centre of a square and to the slot
\* next_grave_xy hands out after k captures of the colour (the fallback
\* point once the table is used up).
InitMargin ==
    /\ board = BoardOf({})
    /\ nbOrder = << "E", "W", "S", "N" >>
    /\ call = NoCall
    /\ GameFresh

CallPlanMarginEscapePath(cap_sq, k) ==
    /\ call = NoCall
    /\ LET cap_xy   == rc_to_center_xy(cap_sq[1], cap_sq[2])
           grave_xy == next_grave_xy("white", CapturedAfter(k), << >>)
       IN  call' = [fn |-> "plan_margin_escape_path", cap_sq |-> cap_sq,
                    grave_xy |-> grave_xy,
                    ret |-> plan_margin_escape_path(cap_xy, grave_xy)]
    /\ UNCHANGED << board, nbOrder, gameVars >>

NextMargin ==
    \E cap_sq \in Squares, k \in 0 .. Len(grave_positions) :
        CallPlanMarginEscapePath(cap_sq, k)

SpecMargin == InitMargin /\ [][NextMargin]_vars

\* ------------------------------------------------------------ animation
\* The plans given to the Animator: none, the plans of a knight's and a
\* rook's move, of a capture and of a castling, each as its planner returns
\* it on a board with nothing else on it.
PlanOrder == << "E", "W", "S", "N" >>
EmptyPlan == << >>
KnightPlan ==
    plan_normal_move(MoverBoard(<< 0, 0 >>, "N", "white", {}),
                     << 0, 0 >>, << 1, 2 >>, PlanOrder).segments
RookPlan ==
    plan_normal_move(MoverBoard(<< 0, 0 >>, "R", "white", {}),
                     << 0, 0 >>, << 0, 2 >>, PlanOrder).segments
CapturePlan ==
    LET b == AttackBoard(<< 1, 1 >>, "P", "white", << 2, 2 >>, {})
    IN  plan_capture_sequence(b, NoSquare, << 1, 1 >>, << 2, 2 >>, << >>, << >>,
                              PlanOrder,
                              CHOOSE n \in nearest_node_to_xy(grave_positions[1]) : TRUE
                             ).segments
\* The plan of the capture en passant of StartEnPassant, the second black
\* piece taken.
EnPassantPlan ==
    plan_capture_sequence(StartEnPassant.board, StartEnPassant.ep, << 1, 1 >>,
                          << 2, 2 >>, << >>, CapturedAfter(1), PlanOrder,
                          CHOOSE n \in nearest_node_to_xy(grave_positions[2]) : TRUE
                         ).segments
CastlingPlan ==
    plan_castling(CastlingBoard("king", "white", {}), KingHome("king", "white"),
                  KingGoal("king", "white"), PlanOrder).segments
AnimPlans ==
    {EmptyPlan, KnightPlan, RookPlan, CapturePlan, EnPassantPlan, CastlingPlan}

\* The start_pos given with a plan: None, the plan's first waypoint (what
\* main passes) or a point beside it on its rank.
StartPositions(plan) ==
    {NoPos} \cup
        (IF Len(plan) > 0 /\ Len(plan[1].waypoints) > 0
         THEN LET w == plan[1].waypoints[1]
              IN  {At(w), At(<< w[1] - Px(12), w[2] >>)}
         ELSE {})

InitAnimator ==
    /\ board = BoardOf({})
    /\ nbOrder = PlanOrder
    /\ call = NoCall
    /\ GameFresh

\* animator.load(plan, start_pos), in whatever state the Animator is.
Load(plan, start_pos) ==
    /\ animator' = AnimatorLoad(animator, plan, start_pos)
    /\ visited' = << >>
    /\ call' = [fn |-> "load", plan |-> plan, start_pos |-> start_pos,
                 before |-> animator]
    /\ UNCHANGED << board, nbOrder, ep_square, turn, ply, captured_white,
                    captured_black, error_msg, segments, assigned, drag_sq,
                    engineVars >>

\* animator.step(), with visited.
Stepped ==
    /\ animator' = AnimatorStep(animator)
    /\ visited' = IF CountsWaypoint(animator) THEN Append(visited, animator'.pos)
                   ELSE visited

\* One frame of main: animator.step().  visited grows by the position at
\* which step() counted the current waypoint as reached.
Step ==
    /\ Stepped
    /\ call' = [fn |-> "step"]
    /\ UNCHANGED << board, nbOrder, ep_square, turn, ply, captured_white,
                    captured_black, error_msg, segments, assigned, drag_sq,
                    engineVars >>

NextAnimator ==
    \/ \E plan \in AnimPlans : \E start_pos \in StartPositions(plan) : Load(plan, start_pos)
    \/ Step

SpecAnimator == InitAnimator /\ [][NextAnimator]_vars

\* Plans with segments that have no waypoint: before, between and after the
\* segments of the knight's plan, and alone.
NoWaypoints(magnet_on) == Segment(<< >>, magnet_on)
GapPlans ==
    {<< NoWaypoints(TRUE) >>,
     << NoWaypoints(FALSE) >> \o KnightPlan,
     << KnightPlan[1], NoWaypoints(TRUE), NoWaypoints(FALSE), KnightPlan[2] >>,
     KnightPlan \o << NoWaypoints(TRUE) >>}

\* One plan is loaded into the new Animator, and main then calls step() once
\* a frame for ever.
LoadOnce(plan, start_pos) ==
    /\ call = NoCall
    /\ Load(plan, start_pos)

Tick ==
    /\ call # NoCall
    /\ Step

NextTicks ==
    \/ \E plan \in AnimPlans \cup GapPlans :
           \E start_pos \in StartPositions(plan) : LoadOnce(plan, start_pos)
    \/ Tick

SpecTicks == InitAnimator /\ [][NextTicks]_vars /\ WF_vars(Tick)

\* ------------------------------------------- pathfinder.py, in board units
\* Largest file and rank index of the squares given to PathFinder.
MaxFile == 7

\* A point of pathfinder.py, (x_units, y_units), kept as the pair of the
\* doubled coordinates: centres are at halves, corridor lines at integers.
Units(n) == 2 * n

\* center_of(fr) = (f + 0.5, r + 0.5)
center_of(fr) == << Units(fr[1]) + 1, Units(fr[2]) + 1 >>

\* corridor_to_x(x_line, y) = (float(x_line), float(y)), y given doubled
corridor_to_x(x_line, y) == << Units(x_line), y >>

\* "if (step > 0 and c >= x1) or (step < 0 and c <= x1): break"
RookLoopEnds(step, c, x1) == (step > 0 /\ c >= x1) \/ (step < 0 /\ c <= x1)

\* The points the "while True:" loop of path_rook_castle_units appends, from
\* corridor line c on.
RECURSIVE RookLines(_, _, _, _)
RookLines(c, x1, step, sy) ==
    << corridor_to_x(c, sy) >> \o
        (IF RookLoopEnds(step, c, x1) THEN << >>
         ELSE RookLines(c + step, x1, step, sy))

\* PathFinder.path_rook_castle_units(fr_from, fr_to)
path_rook_castle_units(fr_from, fr_to) ==
    LET s    == center_of(fr_from)
        d    == center_of(fr_to)
        step == IF fr_to[1] > fr_from[1] THEN 1 ELSE -1
        x0   == fr_from[1]
        x1   == fr_to[1]
        c    == IF step > 0 THEN (IF x0 < x1 THEN x0 ELSE x1) + 1
                ELSE (IF x0 > x1 THEN x0 ELSE x1)
    IN  << s >> \o RookLines(c, x1, step, s[2]) \o << d >>

InitRook ==
    /\ board = BoardOf({})
    /\ nbOrder = PlanOrder
    /\ call = NoCall
    /\ GameFresh

\* path_rook_castle_units called with two different files of one rank.
CallPathRookCastle(f0, f1, r) ==
    /\ f0 # f1
    /\ call' = [fn |-> "path_rook_castle_units", fr_from |-> << f0, r >>,
                fr_to |-> << f1, r >>,
                ret |-> path_rook_castle_units(<< f0, r >>, << f1, r >>)]
    /\ UNCHANGED << board, nbOrder, gameVars >>

NextRook == \E f0, f1, r \in 0 .. MaxFile : CallPathRookCastle(f0, f1, r)

SpecRook == InitRook /\ [][NextRook]_vars

\* ------------------------------------- virtual_board2: main and the engine
\* Largest number of games begun, of moves on the board when the human
\* moves, and largest req_id.
MaxGames == 2
MaxPlies == 2
MaxReqId == 3

\* The moves the human chooses from in any position, and the engine's move.
HumanMoves == {"m1", "m2"}
EngineMove == "e"

simVars == << board, nbOrder, call, ep_square, turn, ply, captured_white,
              captured_black, error_msg, segments, assigned, animator, visited,
              drag_sq >>

\* board.turn, white moving first
SideToMove(b) == IF Len(b) % 2 = 0 THEN "white" ELSE "black"

\* ("play", req_id, board.fen(), skill, think_time), numbered n
PlayMsg(id, fen, n) == [req_id |-> id, fen |-> fen, ser |-> n]

\* "# Engine kickoff if human picked Black": req_id and waiting_for_engine
\* of a new game, with the first request if the engine moves first.  q is
\* to_engine before.
Kickoff(color, q, n) ==
    IF color = "black"
    THEN [req_id |-> 1, waiting |-> TRUE, to_engine |-> Append(q, PlayMsg(1, << >>, n + 1)),
          issued |-> n + 1, live |-> n + 1]
    ELSE [req_id |-> 0, waiting |-> FALSE, to_engine |-> q, issued |-> n, live |-> 0]

\* main up to its first frame: the worker started, the colour chosen in the
\* menu, the first game set up.
InitEngine ==
    /\ board = BoardOf({})
    /\ nbOrder = PlanOrder
    /\ call = NoCall
    /\ SimFresh
    /\ vb_board = << >>
    /\ human_color \in Colors
    /\ LET k == Kickoff(human_color, << >>, 0)
       IN  /\ req_id = k.req_id
           /\ waiting_for_engine = k.waiting
           /\ to_engine = k.to_engine
           /\ issued = k.issued
           /\ live = k.live
    /\ to_ui = << >>
    /\ games = 1
    /\ accepted = NoReply

\* Reset, or the button of the game-over box: the menu, then "# New game"
\* with the colour chosen.  The worker and its queues are those of the game
\* before.
NewGame(color) ==
    /\ games < MaxGames
    /\ games' = games + 1
    /\ vb_board' = << >>
    /\ human_color' = color
    /\ LET k == Kickoff(color, to_engine, issued)
       IN  /\ req_id' = k.req_id
           /\ waiting_for_engine' = k.waiting
           /\ to_engine' = k.to_engine
           /\ issued' = k.issued
           /\ live' = k.live
    /\ UNCHANGED << to_ui, accepted, simVars >>

\* handle_release with a legal move m of the human, the game not over after
\* it: the move is pushed and the engine asked.
HumanMove(m) ==
    /\ SideToMove(vb_board) = human_color
    /\ ~waiting_for_engine
    /\ Len(vb_board) < MaxPlies
    /\ req_id < MaxReqId
    /\ vb_board' = Append(vb_board, m)
    /\ req_id' = req_id + 1
    /\ waiting_for_engine' = TRUE
    /\ to_engine' = Append(to_engine, PlayMsg(req_id + 1, Append(vb_board, m), issued + 1))
    /\ issued' = issued + 1
    /\ live' = issued + 1
    /\ UNCHANGED << human_color, to_ui, games, accepted, simVars >>

\* undo_smart_pair(board, human_color)
undo_smart_pair(b, color) ==
    LET once == IF Len(b) > 0 THEN SubSeq(b, 1, Len(b) - 1) ELSE b
    IN  IF Len(b) > 0 /\ SideToMove(once) # color /\ Len(once) > 0
        THEN SubSeq(once, 1, Len(once) - 1) ELSE once

\* handle_press on the Undo button: "# cancel any pending engine result".
Undo ==
    /\ req_id < MaxReqId
    /\ vb_board' = undo_smart_pair(vb_board, human_color)
    /\ req_id' = req_id + 1
    /\ waiting_for_engine' = FALSE
    /\ live' = 0
    /\ UNCHANGED << human_color, to_engine, to_ui, games, issued, accepted, simVars >>

\* EngineWorker.run, one "play" message: the engine's move for the position
\* of the message goes to to_ui with the message's req_id.  wide says
\* whether the move is legal too in other positions with the same side to
\* move.
WorkerPlay(wide) ==
    /\ to_engine # << >>
    /\ to_engine' = Tail(to_engine)
    /\ to_ui' = Append(to_ui, [req_id |-> Head(to_engine).req_id,
                               fen    |-> Head(to_engine).fen,
                               ser    |-> Head(to_engine).ser,
                               wide   |-> wide])
    /\ UNCHANGED << vb_board, human_color, req_id, waiting_for_engine, games, issued,
                    live, accepted, simVars >>

\* "move in board.legal_moves", for the engine's answer r
LegalNow(r, b) == r.fen = b \/ (r.wide /\ SideToMove(r.fen) = SideToMove(b))

\* "if resp_req_id == req_id and waiting_for_engine and not is_over and uci"
Taken(r, id, waiting) == r.req_id = id /\ waiting

\* "# Engine results": the answers in to_ui, taken out one after the other.
\* st holds the board, waiting_for_engine and the last answer taken.
RECURSIVE EngineResults(_, _)
EngineResults(q, st) ==
    IF q = << >> THEN st
    ELSE LET r == Head(q)
         IN  EngineResults(Tail(q),
                 IF Taken(r, req_id, st.waiting)
                 THEN [board    |-> IF LegalNow(r, st.board)
                                    THEN Append(st.board, EngineMove)
                                    ELSE st.board,
                       waiting  |-> FALSE,
                       accepted |-> [ser |-> r.ser, live |-> live,
                                     pushed |-> LegalNow(r, st.board)]]
                 ELSE st)

\* The start of a frame of main with answers waiting in to_ui.
Frame ==
    /\ to_ui # << >>
    /\ LET st == EngineResults(to_ui, [board |-> vb_board, waiting |-> waiting_for_engine,
                                       accepted |-> accepted])
       IN  /\ vb_board' = st.board
           /\ waiting_for_engine' = st.waiting
           /\ accepted' = st.accepted
    /\ to_ui' = << >>
    /\ UNCHANGED << human_color, req_id, to_engine, games, issued, live, simVars >>

NextEngine ==
    \/ \E color \in Colors : NewGame(color)
    \/ \E m \in HumanMoves : HumanMove(m)
    \/ Undo
    \/ \E wide \in BOOLEAN : WorkerPlay(wide)
    \/ Frame

SpecEngine == InitEngine /\ [][NextEngine]_vars

\* ------------------------------------------------------------ main's loop
\* main's loop: the events, and the frames between them, each with its
\* animator.step().
NextLoop ==
    \/ \E s \in Squares : MouseDown(s)
    \/ \E d \in Squares \cup {NoSquare} : MouseRelease(d)
    \/ \E s \in board_occupied_rc(board) : \E d \in Squares :
          \E promo \in {"Q", "R", "N"} : UciMove(s, d, promo)
    \/ Step

\* The position the loop is taken up from, white to move: the black king in
\* its corner behind two pawns of its own, a white pawn next to it on the
\* diagonal.
StartLoop ==
    PlaceBoard({<< << 0, 0 >>, Piece("K", "white") >>,
                << << BoardN - 2, BoardN - 2 >>, Piece("P", "white") >>,
                << << BoardN - 1, BoardN - 1 >>, Piece("K", "black") >>,
                << << BoardN - 1, BoardN - 2 >>, Piece("P", "black") >>,
                << << BoardN - 2, BoardN - 1 >>, Piece("P", "black") >>})

InitLoop ==
    /\ board = StartLoop
    /\ nbOrder = PlanOrder
    /\ call = NoCall
    /\ GameFresh

SpecLoop == InitLoop /\ [][NextLoop]_vars

\* ------------------------------------------------- routes of the corridor graph
\* The nodes a route of the call may use: every node but the Centers of
\* occupied squares, start and goal excepted.
OpenNodes(b, start, goal) ==
    {n \in NODES : n[1] = "C" /\ << n[2], n[3] >> \in board_occupied_rc(b)
                      => n \in {start, goal}}

\* Breadth-first distance from the frontier to goal inside open; -1 if none.
RECURSIVE BfsDist(_, _, _, _, _)
BfsDist(frontier, seen, goal, open, d) ==
    IF goal \in frontier THEN d
    ELSE IF frontier = {} THEN -1
    ELSE LET next == {m \in UNION {EDGES[n] : n \in frontier} : m \in open /\ m \notin seen}
         IN  BfsDist(next, seen \cup next, goal, open, d + 1)

ShortestEdges(b, start, goal) ==
    BfsDist({start}, {start}, goal, OpenNodes(b, start, goal), 0)

PlannerFns == {"plan_corridor_path", "corridor_between_points", "corridor_to_point"}
PlannerReturned == call.fn \in PlannerFns /\ ~call.ret.err

\* The node a waypoint of a planner's result stands for.
NodeAt(xy) == CHOOSE n \in NODES : node_xy(n) = xy
SquareOf(n) == << n[2], n[3] >>

\* C1: the path a_star returns for plan_corridor_path has the least number of
\* edges among the routes of the corridor graph that avoid every occupied
\* Center other than start and goal.
C1_ShortestRoute ==
    (call.fn = "plan_corridor_path" /\ ~call.ret.err)
        => Len(call.ret.pts) - 1 = ShortestEdges(board, call.start, call.goal)

\* C2: a path returned by plan_corridor_path, corridor_between_points or
\* corridor_to_point holds no Center of an occupied square other than the
\* start and goal of the call, and consecutive nodes are joined by an edge.
C2_PathAvoidsOccupied ==
    PlannerReturned =>
        LET pts == call.ret.pts
        IN  /\ \A i \in 1 .. Len(pts) :
                  \E n \in NODES :
                      /\ node_xy(n) = pts[i]
                      /\ n \in OpenNodes(board, call.start, call.goal)
            /\ \A i \in 1 .. (Len(pts) - 1) : NodeAt(pts[i + 1]) \in EDGES[NodeAt(pts[i])]

\* C2 witness: a returned path that had to go round an occupied square which
\* is neither its start nor its goal.
C2_Witness ==
    /\ PlannerReturned
    /\ call.fn = "corridor_between_points"
    /\ Len(call.ret.pts) > Manhattan(node_xy(call.start), node_xy(call.goal)) \div HALF + 1
    /\ \E s \in board_occupied_rc(board) :
          CNode(s[1], s[2]) \notin {call.start, call.goal}

\* C3: plan_corridor_path raises exactly when the corridor graph has no route
\* from src to dst under the occupancy (start and goal exempt); when a route
\* exists it returns a path from src's centre to dst's centre.
C3_RaisesIffNoRoute ==
    call.fn = "plan_corridor_path" =>
        /\ call.ret.err <=> ShortestEdges(board, call.start, call.goal) = -1
        /\ call.ret.err => call.ret.pts = << >>
        /\ ~call.ret.err =>
              /\ call.ret.pts[1] = node_xy(call.start)
              /\ call.ret.pts[Len(call.ret.pts)] = node_xy(call.goal)

\* C3 witness: a call that raised although some squares of the board are free.
C3_Witness ==
    /\ call.fn = "plan_corridor_path"
    /\ call.ret.err
    /\ \E s \in Squares : board[s] = NoPiece /\ CNode(s[1], s[2]) \notin {call.start, call.goal}

\* C4: on a board with no occupied square besides src and dst,
\* plan_corridor_path returns a path from src's centre to dst's centre whose
\* number of nodes is fixed by src and dst alone, whatever the order in which
\* a_star visits the neighbours of a node.
C4_EmptyBoardPath ==
    (call.fn = "plan_corridor_path"
        /\ board_occupied_rc(board) \subseteq {SquareOf(call.start), SquareOf(call.goal)})
    => /\ ~call.ret.err
       /\ call.ret.pts[1] = node_xy(call.start)
       /\ call.ret.pts[Len(call.ret.pts)] = node_xy(call.goal)
       /\ Len(call.ret.pts) =
              2 * (Abs(call.start[2] - call.goal[2]) + Abs(call.start[3] - call.goal[3])) + 1

\* C4 witness: a path between two occupied squares that share neither rank nor
\* file, found under an order other than the first.
C4_Witness ==
    /\ call.fn = "plan_corridor_path"
    /\ board_occupied_rc(board) = {SquareOf(call.start), SquareOf(call.goal)}
    /\ call.start[2] # call.goal[2]
    /\ call.start[3] # call.goal[3]
    /\ nbOrder = << "S", "E", "N", "W" >>
    /\ ~call.ret.err

\* A point on a vertical or horizontal line between two files or ranks (or on
\* the rim of the board): the corridor lines of the knight route.
OnVerticalGridLine(p) == \E k \in 0 .. BoardN : p[1] = MARGIN + k * SQUARE
OnHorizontalGridLine(p) == \E k \in 0 .. BoardN : p[2] = MARGIN + k * SQUARE

\* C5: for each knight offset the router returns exactly 4 points: src's
\* centre, a point half a square from it along the short axis on a grid line,
\* a point two squares further along that line, and dst's centre; the legs
\* are axis-aligned, of lengths half a square, two squares and half a square,
\* and the result is the one an empty board gives.
C5_KnightRoute ==
    (call.fn = "plan_knight_route_on_lines" /\ IsKnightOffset(call.src, call.dst)) =>
        LET pts    == call.ret.pts
            p0     == rc_to_center_xy(call.src[1], call.src[2])
            p1     == rc_to_center_xy(call.dst[1], call.dst[2])
            longIsY == Abs(call.dst[1] - call.src[1]) = 2
        IN  /\ ~call.ret.err
            /\ Len(pts) = 4
            /\ pts[1] = p0
            /\ pts[4] = p1
            /\ IF longIsY
               THEN /\ pts[2][2] = p0[2] /\ Abs(pts[2][1] - p0[1]) = HALF
                    /\ OnVerticalGridLine(pts[2])
                    /\ pts[3][1] = pts[2][1] /\ Abs(pts[3][2] - pts[2][2]) = 2 * SQUARE
                    /\ pts[4][2] = pts[3][2] /\ Abs(pts[4][1] - pts[3][1]) = HALF
               ELSE /\ pts[2][1] = p0[1] /\ Abs(pts[2][2] - p0[2]) = HALF
                    /\ OnHorizontalGridLine(pts[2])
                    /\ pts[3][2] = pts[2][2] /\ Abs(pts[3][1] - pts[2][1]) = 2 * SQUARE
                    /\ pts[4][1] = pts[3][1] /\ Abs(pts[4][2] - pts[3][2]) = HALF
            /\ call.ret = plan_knight_route_on_lines(BoardOf({}), call.src, call.dst, nbOrder)

\* C5 witness: a knight route returned across a board whose other squares are
\* all occupied.
C5_Witness ==
    /\ call.fn = "plan_knight_route_on_lines"
    /\ IsKnightOffset(call.src, call.dst)
    /\ call.dst[1] < call.src[1]
    /\ Cardinality(board_occupied_rc(board)) >= Cardinality(Squares) - 1
    /\ Len(call.ret.pts) = 4

\* C6: called with an offset that is none of the 8 knight offsets, the router
\* fails and returns no route.
C6_NonKnightFails ==
    (call.fn = "plan_knight_route_on_lines" /\ ~IsKnightOffset(call.src, call.dst))
        => call.ret.err

\* A capture plan came back from plan_capture_sequence.
CapturePlanReturned == call.fn = "plan_capture_sequence" /\ ~call.ret.err

\* C7: a plan returned by plan_capture_sequence has exactly 7 segments, the
\* magnet flags are off, on, on, off, off, on, off, and segments 2, 4 and 7
\* hold exactly one waypoint, the last waypoint of the segment before.
C7_SevenSegments ==
    CapturePlanReturned =>
        LET segs == call.ret.segments
        IN  /\ Len(segs) = 7
            /\ [i \in 1 .. 7 |-> segs[i].magnet_on]
                   = << FALSE, TRUE, TRUE, FALSE, FALSE, TRUE, FALSE >>
            /\ \A i \in {2, 4, 7} :
                  /\ Len(segs[i].waypoints) = 1
                  /\ Len(segs[i - 1].waypoints) >= 1
                  /\ segs[i].waypoints[1] = Last(segs[i - 1].waypoints)

\* C7 witness: a plan returned for a knight that captures with a bystander on
\* the board.
C7_Witness ==
    /\ CapturePlanReturned
    /\ board[call.src].type = "N"
    /\ Cardinality(board_occupied_rc(board)) = 3

\* C8: in a capture plan segment 1 ends, segment 2 stays and segment 3 starts
\* at the centre of the captured square, which is dst, or the square on dst's
\* file and src's rank when a pawn captures onto an empty square (en passant);
\* segment 6 ends and segment 7 stays at dst's centre.
C8_CapturedSquareCentre ==
    CapturePlanReturned =>
        LET segs   == call.ret.segments
            cap    == IF board[call.dst] = NoPiece
                      THEN << call.src[1], call.dst[2] >> ELSE call.dst
            cap_xy == rc_to_center_xy(cap[1], cap[2])
            dst_xy == rc_to_center_xy(call.dst[1], call.dst[2])
        IN  /\ Len(segs) = 7
            /\ Last(segs[1].waypoints) = cap_xy
            /\ segs[2].waypoints = << cap_xy >>
            /\ segs[3].waypoints[1] = cap_xy
            /\ Last(segs[6].waypoints) = dst_xy
            /\ segs[7].waypoints = << dst_xy >>

\* C8 witness: a plan returned for an en-passant capture.
C8_Witness ==
    /\ CapturePlanReturned
    /\ board[call.dst] = NoPiece
    /\ ep_square = call.dst
    /\ board[<< call.src[1], call.dst[2] >>] # NoPiece

\* C9: the graveyard points of the captures executed in a game are pairwise
\* different.
C9_NoSlotReuse ==
    \A i, j \in 1 .. Len(assigned) : i # j => assigned[i].xy # assigned[j].xy

\* The number of executed captures of colour c among the first n.
CapturesOf(c, n) == Cardinality({j \in 1 .. n : assigned[j].color = c})

\* C10: the k-th executed capture of a colour (from 0) was given ordinal k,
\* and the list of a colour, whose length is the ordinal next in line, has
\* one entry per executed capture of that colour, failed attempts
\* notwithstanding.
C10_OrdinalPerColour ==
    /\ \A i \in 1 .. Len(assigned) :
          assigned[i].ordinal = CapturesOf(assigned[i].color, i - 1)
    /\ Len(captured_white) = CapturesOf("white", Len(assigned))
    /\ Len(captured_black) = CapturesOf("black", Len(assigned))

\* C10 witness: two captures of one colour were executed, another move
\* between them.
C10_Witness ==
    /\ ply = 3
    /\ \E c \in Colors : CapturesOf(c, Len(assigned)) >= 2

\* C11: in a capture plan the return segment (segment 5) ends at the centre
\* of src, which the capturing piece still occupies, and holds at least two
\* waypoints.
C11_ReturnEntersOrigin ==
    CapturePlanReturned =>
        LET back == call.ret.segments[5].waypoints
        IN  /\ Len(back) >= 2
            /\ Last(back) = rc_to_center_xy(call.src[1], call.src[2])

\* The leg from p to q holds a point strictly inside the play area, the
\* rectangle of the squares (exact for the axis-aligned legs of the routes).
LegEntersBoard(p, q) ==
    LET lo(a, b) == IF a < b THEN a ELSE b
        hi(a, b) == IF a < b THEN b ELSE a
    IN  /\ hi(p[1], q[1]) > MARGIN
        /\ lo(p[1], q[1]) < BOARD_PIXELS - MARGIN
        /\ hi(p[2], q[2]) > MARGIN
        /\ lo(p[2], q[2]) < BOARD_PIXELS - MARGIN

\* C12: in the route of plan_margin_escape_path no leg after the outside
\* waypoint (the third point) holds a point strictly inside the play area.
C12_NeverReenters ==
    call.fn = "plan_margin_escape_path" =>
        \A i \in 3 .. (Len(call.ret) - 1) : ~LegEntersBoard(call.ret[i], call.ret[i + 1])

\* The point x lies on the leg from p to q.
OnLeg(p, q, x) ==
    /\ (q[1] - p[1]) * (x[2] - p[2]) = (q[2] - p[2]) * (x[1] - p[1])
    /\ (x[1] - p[1]) * (x[1] - q[1]) <= 0
    /\ (x[2] - p[2]) * (x[2] - q[2]) <= 0

\* C13: no leg of segment 3 of a capture plan, on which the captured piece
\* is carried to the graveyard, passes through the centre of a square
\* occupied by a piece other than the captured one.
C13_CarriedCrossesNoPiece ==
    CapturePlanReturned =>
        LET wps == call.ret.segments[3].waypoints
            cap == IF board[call.dst] = NoPiece
                   THEN << call.src[1], call.dst[2] >> ELSE call.dst
        IN  \A i \in 1 .. (Len(wps) - 1) :
                \A q \in board_occupied_rc(board) \ {cap} :
                    ~OnLeg(wps[i], wps[i + 1], rc_to_center_xy(q[1], q[2]))

C15_CastlingNeverFails ==
    call.fn = "plan_castling" => ~call.ret.err

\* C16: a plan returned by plan_normal_move has exactly 2 segments: a travel
\* segment with the magnet on, from src's centre to dst's centre (the 4
\* points of the knight route if a knight moves, else the planner's corridor
\* path), and a segment with the magnet off whose one waypoint is the last
\* of the travel segment.
C16_NormalMovePlan ==
    (call.fn = "plan_normal_move" /\ ~call.ret.err) =>
        LET segs   == call.ret.segments
            travel == segs[1].waypoints
        IN  /\ Len(segs) = 2
            /\ segs[1].magnet_on
            /\ ~segs[2].magnet_on
            /\ travel[1] = rc_to_center_xy(call.src[1], call.src[2])
            /\ Last(travel) = rc_to_center_xy(call.dst[1], call.dst[2])
            /\ segs[2].waypoints = << Last(travel) >>
            /\ IF board[call.src].type = "N"
               THEN /\ Len(travel) = 4
                    /\ travel = plan_knight_route_on_lines(board, call.src, call.dst,
                                                           nbOrder).pts
               ELSE travel = plan_corridor_path(board, call.src, call.dst, nbOrder).pts

\* C16 witness: a plan returned for a knight's move with a bystander on the
\* board.
C16_Witness ==
    /\ call.fn = "plan_normal_move"
    /\ ~call.ret.err
    /\ board[call.src].type = "N"
    /\ Cardinality(board_occupied_rc(board)) = 2

\* C17: Animator.load(plan, start_pos), in whatever state the Animator was,
\* leaves segment index and waypoint index 0 and the trace empty, done true
\* exactly when the plan has no segment, and the position start_pos when one
\* is given, else the first waypoint of the plan's first segment.
C17_LoadContract ==
    call.fn = "load" =>
        /\ animator.segments = call.plan
        /\ animator.cur_seg_i = 0
        /\ animator.cur_wp_i = 0
        /\ animator.last_draw_path = << >>
        /\ animator.done = (Len(call.plan) = 0)
        /\ call.start_pos # NoPos => animator.pos = call.start_pos
        /\ (call.start_pos = NoPos /\ Len(call.plan) > 0) =>
               animator.pos = At(call.plan[1].waypoints[1])

\* C17 witness: a plan loaded without start_pos over a plan under way, which
\* had got past its first segment and had a trace.
C17_Witness ==
    /\ call.fn = "load"
    /\ call.start_pos = NoPos
    /\ Len(call.plan) > 0
    /\ ~call.before.done
    /\ call.before.cur_seg_i > 0
    /\ call.before.cur_wp_i > 0
    /\ call.before.last_draw_path # << >>
    /\ call.before.pos # animator.pos

\* The waypoints of a plan, segment after segment, as positions.
PlanWaypoints(plan) ==
    LET RECURSIVE upto(_)
        upto(i) == IF i = 0 THEN << >>
                   ELSE upto(i - 1) \o [k \in 1..Len(plan[i].waypoints) |->
                                            At(plan[i].waypoints[k])]
    IN  upto(Len(plan))

IsPrefix(s, t) == Len(s) <= Len(t) /\ s = SubSeq(t, 1, Len(s))

\* A plan of a travel segment with the magnet on, then a release segment with
\* it off.
TravelThenRelease(plan) ==
    Len(plan) = 2 /\ plan[1].magnet_on /\ ~plan[2].magnet_on

\* C18: with a plan of two segments loaded (travel with the magnet on, then
\* release with it off), the waypoints reached so far are the plan's
\* waypoints in plan order, all of them once the Animator is done;
\* current_magnet_on() is true exactly while the first segment is the current
\* one, and it is false whenever the Animator is idle or done.
C18_TwoSegmentRun ==
    /\ TravelThenRelease(animator.segments) =>
           /\ IsPrefix(visited, PlanWaypoints(animator.segments))
           /\ animator.done => visited = PlanWaypoints(animator.segments)
           /\ current_magnet_on(animator) = (~animator.done /\ animator.cur_seg_i = 0)
    /\ (animator.done \/ animator.segments = << >>) => ~current_magnet_on(animator)

\* C18 witness: the knight's plan ticked to the end, all five waypoints
\* reached, the last of them the position.
C18_Witness ==
    /\ call.fn = "step"
    /\ TravelThenRelease(animator.segments)
    /\ animator.done
    /\ Len(visited) = 5
    /\ visited = PlanWaypoints(animator.segments)
    /\ animator.pos = visited[5]

\* The waypoints of the segments of a plan that have the magnet on, as
\* positions.
EngagedWaypoints(plan) ==
    UNION {{At(plan[i].waypoints[k]) : k \in 1..Len(plan[i].waypoints)} :
              i \in {j \in 1..Len(plan) : plan[j].magnet_on}}

MovedToward(pos, new, target, step) ==
    LET o == IF IsPoint(pos) \/ pos.b # target THEN pos.b ELSE pos.a
        t == IF IsPoint(pos) \/ pos.b # target THEN 0 ELSE pos.t
    IN  IF IsPoint(new)
        THEN /\ OnLeg(o, target, new.a)
             /\ Hypot2(o, new.a) >= t * t
             /\ Hypot2(o, new.a) <= (t + step) * (t + step)
        ELSE /\ new.a = o
             /\ new.b = target
             /\ new.t >= t
             /\ new.t <= t + step
             /\ new.t * new.t <= Hypot2(o, target)

\* C20: a tick moves the position towards the current waypoint, by no more
\* than 5 px if the current segment has the magnet on and no more than 8 px
\* if it has it off, and not beyond the waypoint; 5 px is the smaller step,
\* and a tick of a finished Animator moves nothing.
C20_StepBound ==
    [][call'.fn = "step" =>
          /\ DRAG_SPEED_PX = Px(5)
          /\ TRAVEL_SPEED_PX = Px(8)
          /\ DRAG_SPEED_PX < TRAVEL_SPEED_PX
          /\ animator.done => animator'.pos = animator.pos
          /\ (~animator.done /\ animator.pos # NoPos) =>
                 LET seg == animator.segments[animator.cur_seg_i + 1]
                 IN  MovedToward(animator.pos, animator'.pos,
                                 seg.waypoints[animator.cur_wp_i + 1],
                                 IF seg.magnet_on THEN Px(5) ELSE Px(8))]_vars

\* C20 witness: a tick with the magnet off has moved the position 8 px
\* along a slanting leg, after ticks with the magnet on that moved it 5 px
\* at a time.
C20_Witness ==
    /\ call.fn = "step"
    /\ ~animator.done
    /\ ~animator.segments[animator.cur_seg_i + 1].magnet_on
    /\ ~IsPoint(animator.pos)
    /\ animator.pos.t = Px(8)
    /\ \E k \in 1..(Len(animator.last_draw_path) - 1) :
           Manhattan(animator.last_draw_path[k].a, animator.last_draw_path[k + 1].a) = Px(5)

\* The Animator has a current waypoint and a position.
Running(self) ==
    /\ ~self.done
    /\ self.segments # << >>
    /\ self.segments[self.cur_seg_i + 1].waypoints # << >>
    /\ self.pos # NoPos

CurSegment(self) == self.segments[self.cur_seg_i + 1]
CurWaypoint(self) == CurSegment(self).waypoints[self.cur_wp_i + 1]
CurStep(self) == IF CurSegment(self).magnet_on THEN DRAG_SPEED_PX ELSE TRAVEL_SPEED_PX

\* The distance left from pos to target is less than step.
LessThanAStep(pos, target, step) ==
    IF IsPoint(pos) \/ pos.b # target
    THEN Hypot2(pos.b, target) < step * step
    ELSE (pos.t + step) * (pos.t + step) > Hypot2(pos.a, pos.b)

\* The indices after the current waypoint has been counted.
IndexAdvanced(self, next) ==
    IF self.cur_wp_i + 1 < Len(CurSegment(self).waypoints)
    THEN next.cur_seg_i = self.cur_seg_i /\ next.cur_wp_i = self.cur_wp_i + 1
    ELSE next.cur_seg_i = self.cur_seg_i + 1 /\ next.cur_wp_i = 0

\* C21, as claimed: a tick that starts less than one step from the current
\* waypoint leaves the position at the waypoint and the indices advanced.
C21_SnapAndAdvance ==
    [][(call'.fn = "step" /\ Running(animator)
         /\ LessThanAStep(animator.pos, CurWaypoint(animator), CurStep(animator))) =>
          /\ animator'.pos = At(CurWaypoint(animator))
          /\ IndexAdvanced(animator, animator')]_vars

\* C21, amended: a tick that starts less than one step from the current
\* waypoint, and not at it, moves the position to the waypoint and leaves
\* the indices as they were; a tick that starts at the waypoint leaves the
\* position there and advances the indices.
C21_SnapThenAdvance ==
    [][(call'.fn = "step" /\ Running(animator)
         /\ LessThanAStep(animator.pos, CurWaypoint(animator), CurStep(animator))) =>
          IF Reached(animator.pos, CurWaypoint(animator))
          THEN /\ animator'.pos = animator.pos
               /\ IndexAdvanced(animator, animator')
          ELSE /\ animator'.pos = At(CurWaypoint(animator))
               /\ animator'.cur_seg_i = animator.cur_seg_i
               /\ animator'.cur_wp_i = animator.cur_wp_i]_vars

\* C21 witness: a tick has brought the position to the last waypoint of a
\* segment over a last stretch shorter than a step, the waypoint not yet
\* counted.
C21_Witness ==
    /\ call.fn = "step"
    /\ Running(animator)
    /\ animator.pos = At(CurWaypoint(animator))
    /\ animator.cur_wp_i + 1 = Len(CurSegment(animator).waypoints)
    /\ animator.last_draw_path # << >>
    /\ LET last == animator.last_draw_path[Len(animator.last_draw_path)]
       IN  /\ last = animator.pos
           /\ Len(animator.last_draw_path) > 1
           /\ LET prev == animator.last_draw_path[Len(animator.last_draw_path) - 1]
              IN  Manhattan(prev.a, last.a) < DRAG_SPEED_PX

\* C22: after a plan is loaded, segments without waypoints among them or
\* not, the ticks that follow lead to done being true with the segment index
\* the number of segments; a tick in a segment without waypoints leaves the
\* position as it was.
C22_RunEnds ==
    /\ (call.fn = "load") ~>
           (animator.done /\ animator.cur_seg_i = Len(animator.segments))
    /\ [][(call'.fn = "step" /\ ~animator.done
            /\ CurSegment(animator).waypoints = << >>) =>
             /\ animator'.pos = animator.pos
             /\ animator'.cur_seg_i = animator.cur_seg_i + 1]_vars

\* C22 witness: done after the last of four segments, two of them without
\* waypoints, the other two with all their waypoints reached.
C22_Witness ==
    /\ call.fn = "step"
    /\ animator.done
    /\ Len(animator.segments) = 4
    /\ animator.cur_seg_i = 4
    /\ animator.segments[2].waypoints = << >>
    /\ visited = PlanWaypoints(animator.segments)
    /\ Len(visited) = 5

\* C23: when the planner of a requested move raises, the handler leaves the
\* board and the side to move as they were, the Animator with the plan, the
\* indices, the position and the trace it had, and the graveyard lists
\* without a new entry; it sets the error message.
C23_RejectedUntouched ==
    [][call'.fn = "rejected" =>
          /\ board' = board
          /\ ep_square' = ep_square
          /\ turn' = turn
          /\ ply' = ply
          /\ animator' = animator
          /\ captured_white' = captured_white
          /\ captured_black' = captured_black
          /\ assigned' = assigned
          /\ error_msg' = PathError]_vars

\* C23 witness: the capture by the shut-in king was rejected while the plan
\* of the move before was under way, the magnet on and off its first
\* waypoint.
C23_Witness ==
    /\ call.fn = "rejected"
    /\ ply = 1
    /\ ~animator.done
    /\ current_magnet_on(animator)
    /\ animator.cur_wp_i > 0
    /\ animator.pos # At(CurWaypoint(animator))
    /\ Cardinality(board_occupied_rc(board)) = 5

\* C24: a plan is loaded into the Animator only when the Animator is done.
C24_LoadOnlyWhenDone ==
    [][call'.fn = "load" => animator.done]_vars

\* C25: in a capture plan every segment after the first begins at the last
\* waypoint of the segment before it; the return segment (segment 5) so
\* begins at the graveyard point at which segment 4 released the captured
\* piece.
C25_ContinuousRoute ==
    CapturePlanReturned =>
        LET segs == call.ret.segments
        IN  /\ segs[5].waypoints[1] = call.ret.grave_xy
            /\ \A i \in 2 .. Len(segs) :
                   segs[i].waypoints[1] = Last(segs[i - 1].waypoints)

\* The capture plans given to the Animator, with the points of the capture:
\* the centres of src, of dst and of the captured piece's square, and the
\* graveyard point.
CaptureCases ==
    {[plan |-> CapturePlan,
      src_xy |-> rc_to_center_xy(1, 1), dst_xy |-> rc_to_center_xy(2, 2),
      cap_xy |-> rc_to_center_xy(2, 2), grave_xy |-> grave_positions[1]],
     [plan |-> EnPassantPlan,
      src_xy |-> rc_to_center_xy(1, 1), dst_xy |-> rc_to_center_xy(2, 2),
      cap_xy |-> rc_to_center_xy(1, 2), grave_xy |-> grave_positions[2]]}

\* C26: in the ticks of a capture plan the segment index stays or goes up
\* by one, and current_magnet_on() is true exactly in segments 2, 3 and 6:
\* it turns true twice and false twice, in turn, first true.  It turns true
\* only with the position at the centre of the captured piece's square or of
\* src, and false only with the position at the graveyard point or at the
\* centre of dst.
C26_EngageDisengage ==
    [][\A case \in CaptureCases :
          (call'.fn = "step" /\ animator.segments = case.plan) =>
              /\ animator'.cur_seg_i \in {animator.cur_seg_i, animator.cur_seg_i + 1}
              /\ current_magnet_on(animator) = (animator.cur_seg_i \in {1, 2, 5})
              /\ current_magnet_on(animator') = (animator'.cur_seg_i \in {1, 2, 5})
              /\ (~current_magnet_on(animator) /\ current_magnet_on(animator')) =>
                     animator'.pos \in {At(case.cap_xy), At(case.src_xy)}
              /\ (current_magnet_on(animator) /\ ~current_magnet_on(animator')) =>
                     animator'.pos \in {At(case.grave_xy), At(case.dst_xy)}]_vars

\* C26 witness: the plan of the capture en passant ticked to the end, every
\* waypoint reached, the magnet let go of the capturing pawn on dst.
C26_Witness ==
    /\ call.fn = "step"
    /\ animator.segments = EnPassantPlan
    /\ animator.done
    /\ animator.cur_seg_i = 7
    /\ visited = PlanWaypoints(EnPassantPlan)
    /\ animator.pos = At(rc_to_center_xy(2, 2))

\* C27: the Animator is done, or its segment index is that of a segment of
\* the plan and, if that segment has waypoints, its waypoint index is that
\* of one of them.
C27_IndicesInRange ==
    \/ animator.done
    \/ /\ 0 <= animator.cur_seg_i
       /\ animator.cur_seg_i < Len(animator.segments)
       /\ LET wps == animator.segments[animator.cur_seg_i + 1].waypoints
          IN  wps # << >> =>
                  (0 <= animator.cur_wp_i /\ animator.cur_wp_i < Len(wps))

\* C27 witness: the last of the four waypoints of a segment is the current
\* one, the segment before it having no waypoint.
C27_Witness ==
    /\ call.fn = "step"
    /\ ~animator.done
    /\ animator.cur_seg_i = 1
    /\ animator.segments[1].waypoints = << >>
    /\ animator.cur_wp_i = 3
    /\ Len(animator.segments[2].waypoints) = 4

\* C28: a tick of an Animator that is done leaves position, segment index,
\* waypoint index, trace, plan and done as they are, and current_magnet_on()
\* false.
C28_DoneIsFinal ==
    [][(call'.fn = "step" /\ animator.done) =>
          /\ animator' = animator
          /\ ~current_magnet_on(animator')]_vars

\* C28 witness: a tick after the tick that ended a plan of seven segments,
\* with the trace of the plan and the position at its last waypoint.
C28_Witness ==
    /\ call.fn = "step"
    /\ animator.done
    /\ Len(animator.segments) = 7
    /\ animator.cur_seg_i = 7
    /\ animator.last_draw_path # << >>
    /\ animator.pos = At(Last(animator.segments[7].waypoints))
    /\ AnimatorStep(animator) = animator

\* C29: the path of path_rook_castle_units begins at the centre of the
\* source, ends at the centre of the destination, and holds between them
\* exactly the vertical corridor lines that lie strictly between the two
\* centres, in the order of travel, all on the rank's height: x goes one way
\* and never beyond the destination's centre.
C29_RookPath ==
    call.fn = "path_rook_castle_units" =>
        LET pts  == call.ret
            s    == center_of(call.fr_from)
            d    == center_of(call.fr_to)
            lo   == IF s[1] < d[1] THEN s[1] ELSE d[1]
            hi   == IF s[1] < d[1] THEN d[1] ELSE s[1]
            n    == Len(pts) - 2
        IN  /\ pts[1] = s
            /\ pts[Len(pts)] = d
            /\ n = Cardinality({x \in 0 .. MaxFile + 1 : lo < Units(x) /\ Units(x) < hi})
            /\ \A i \in 2 .. (Len(pts) - 1) :
                   /\ pts[i][2] = s[2]
                   /\ lo < pts[i][1] /\ pts[i][1] < hi
                   /\ pts[i][1] % 2 = 0
            /\ \A i \in 1 .. (Len(pts) - 1) :
                   IF s[1] < d[1] THEN pts[i][1] < pts[i + 1][1]
                   ELSE pts[i][1] > pts[i + 1][1]

\* C30: an answer of the engine that main takes, which ends the waiting and
\* is pushed on the board if legal, is the answer to the request main
\* awaits, the last one made and not given up by an undo or a new game.
C30_OnlyAwaitedAnswer ==
    accepted # NoReply => accepted.ser = accepted.live

=============================================================================
